---- MODULE Spec2Model ----
(***************************************************************************)
(* The write path of the serverless log on GCS: the `sequence` and         *)
(* `integrate` cloud functions (experimental/gcp-log/function.go) and the  *)
(* storage Client they drive.  Every object-store call of the code is one  *)
(* atomic step; a function instance may stop between any two calls.        *)
(* The tile store (StoreTile, GetTile) and ScanSequenced are also driven    *)
(* by themselves on arbitrary inputs, the scan side by side with the one   *)
(* of testonly/mem_storage.go, and a log state tracker reads the           *)
(* checkpoint.  The read side (LogStateTracker.Update, CheckConsistency)   *)
(* is also driven by itself against a log that presents any checkpoint.    *)
(* Besides: testonly.MemStorage under concurrent callers, and of the       *)
(* hammer the workerPool with its workers' goroutines, LeafReader.getLeaf *)
(* with its tileCache, and the Throttle.                                   *)
(***************************************************************************)
EXTENDS Integers, Sequences, FiniteSets, TLC

\* ------------------------------------------------------------------ bounds
MaxSeq == 2          \* seq/ indices 0 .. MaxSeq-1 can be claimed

Procs == {1, 2}      \* concurrently running function instances
Entries == {1, 2}    \* entry blobs offered to the sequencers
Indices == 0..(MaxSeq - 1)

NoEntry == 0         \* "object does not exist" for a seq/ object
NoObject == <<>>     \* "object does not exist" for a leaves/ object
NoLeaf  == 0         \* the instance is not inside Client.Sequence
TileWidth == 256     \* tile leaves of a full tile
HashSize == 32       \* bytes of a hash, the first line of a serialised tile
NotExist == [err |-> "os.ErrNotExist"]
NoCall == [op |-> "none"] \* no tile call was made yet
NoScan == [impl |-> "none"] \* no ScanSequenced call on its own was made

MaxTiles == 2        \* tile objects the store-only specification lets exist
MaxGen == 3          \* generations the checkpoint-only specification lets the checkpoint reach
MaxCalls == 2        \* Client.Sequence results recorded per sequence run
MaxWorkers == 3      \* workers the pool's factory makes
MaxLog == 4          \* leaves of the log the LeafReader reads
BundleSize == 2      \* LeafReader.bundleSize
MaxOps == 22         \* largest Throttle.opsPerSecond
StartOps == 20       \* flag max_read_ops, its default
\* inputs of the tile calls: <<level, index>>, tile sizes, node contents, tree sizes
TileIds == {<<0, 1>>, <<1, 0>>}
TileSizes == {0, 1, TileWidth - 1, TileWidth, TileWidth + 1}
NodeSeeds == {1, 2}
LogSizes == {0, 1, TileWidth - 1, TileWidth, TileWidth + 1, 2 * TileWidth - 1,
             2 * TileWidth, TileWidth * TileWidth - 1, TileWidth * TileWidth}

\* ------------------------------------------------------- pure functions
\* rfc6962 leaf hash: H(0x00 || entry); the digest is kept symbolic and
\* injective.
HashLeaf(e) == <<0, e>>

Hashes == {HashLeaf(e) : e \in Entries}

\* strconv.FormatUint(n, base): the digits of n, most significant first.
RECURSIVE FormatUint(_, _)
FormatUint(n, base) ==
    IF n < base THEN <<n>>
    ELSE Append(FormatUint(n \div base, base), n % base)

\* strconv.ParseUint(s, base, 64): the value of a well-formed digit string.
RECURSIVE ParseUint(_, _)
ParseUint(s, base) ==
    IF Len(s) = 1 THEN s[1]
    ELSE ParseUint(SubSeq(s, 1, Len(s) - 1), base) * base + s[Len(s)]

\* layout.PartialTileSize: the tile leaves which tile (level, index) has in a
\* tree of logSize leaves, at most TileWidth.
RECURSIVE Pow(_, _)
Pow(b, e) == IF e = 0 THEN 1 ELSE b * Pow(b, e - 1)

Min(a, b) == IF a < b THEN a ELSE b

LeavesUnder(level, index, logSize) ==
    LET sizeAtLevel == logSize \div Pow(TileWidth, level) IN
    IF sizeAtLevel > index * TileWidth THEN sizeAtLevel - index * TileWidth ELSE 0

PartialTileSize(level, index, logSize) ==
    Min(TileWidth, LeavesUnder(level, index, logSize))

\* layout.TilePath: level, index and the suffix, which is the tile size for a
\* partial tile and absent (0 here) for the sizes 0 and TileWidth.
TilePath(level, index, tileSize) ==
    <<level, index, IF tileSize \in 1..(TileWidth - 1) THEN tileSize ELSE 0>>

\* api.Tile.MarshalText: hash size, tile-leaf count, then the hashes.
MarshalText(tile) == <<HashSize, tile.NumLeaves>> \o tile.Nodes

\* api.Tile.UnmarshalText.
UnmarshalText(t) == [NumLeaves |-> t[2], Nodes |-> SubSeq(t, 3, Len(t))]

\* The root hash of the tree over the given leaf hashes; the digest is kept
\* symbolic and injective.
RootHash(ns) == <<1, ns>>

\* ParseUint fails on an empty string or on a character that is no digit of
\* the base.
ParseUintOK(s, base) ==
    /\ Len(s) > 0
    /\ \A i \in 1..Len(s) : s[i] \in 0..(base - 1)

VARIABLES
    \* the bucket
    seqObj,         \* seq/<n>: the entry stored there, or NoEntry
    leafObj,        \* leaves/<h>: hex digits of an index, or NoObject
    cp,             \* the checkpoint object: generation (0 = absent), size, root
    tileObj,        \* tile objects: path -> bytes, for the paths that exist
    attrs,          \* ObjectAttrs.CacheControl of the objects ("" = not set)
    \* one function instance and its storage Client
    pc,             \* position of the instance
    run,            \* which entry point runs: "none", "init", "sequence", "integrate"
    nextSeq,        \* Client.nextSeq
    checkpointGen,  \* Client.checkpointGen
    opts,           \* Client.checkpointCacheControl and Client.otherCacheControl
    leaf,           \* entry being sequenced by Client.Sequence (NoLeaf outside)
    seq,            \* local `seq` of Client.Sequence
    begin,          \* ScanSequenced: begin
    end,            \* ScanSequenced: end
    newCp,          \* size of the checkpoint handed to signAndWrite
    nodes,          \* log.Integrate: leaf hashes of the tree built so far
    \* history (observations of the run, not program state)
    retSeq,         \* number returned by the instance's last Client.Sequence call
    retErr,         \* error returned by that call
    retFor,         \* entry that call was made for
    ms,             \* testonly.MemStorage shared by concurrent callers
    pool,           \* the hammer's workerPool and the workers its factory made
    thr,            \* the hammer's read Throttle and the round of its Run
    lr,             \* a LeafReader of the hammer, the log it reads and its last getLeaf call
    runLog,         \* errors of the first Client.Sequence calls of the instance's sequence run
    hasRead,        \* the Client has called ReadCheckpoint
    rdGen,          \* generation of the checkpoint when ReadCheckpoint completed
    wres,           \* outcome of the Client's WriteCheckpoint
    wgen,           \* generation of the checkpoint right after that call
    wrun,           \* entry point that made that call
    cpBy,           \* instance whose WriteCheckpoint stored the checkpoint
    freshCnt,       \* per index: Sequence calls that returned it without error
    claimLost,      \* indices on which a claim hit a precondition failure
    retDupe,        \* <<h, n>>: a Sequence call for h returned n with ErrDupeLeaf
    retFresh,       \* <<h, n>>: a Sequence call for h returned n without error
    raced,          \* pairs of Sequence calls that both passed the probe before either wrote leaves/
    orphans,        \* <<n, h>>: an instance stopped after creating seq/<n>, before leaves/<h>
    orphTaken,      \* orphans after which a Sequence call for the same hash has begun
    seenOrph,       \* orphans for which the instance's call is the first later call
    afterOrph,      \* <<n, h, err, m>>: result of the first call for h begun after orphan <<n, h>>
    scanFree,       \* first free index when the instance's scan began
    tcall,          \* the last StoreTile / GetTile / Update call, or the pair of checkpoints compared
    \* callers of the storage outside the function instances
    latest,         \* LogStateTracker: LatestConsistent and the error of the last Update
    scan,           \* one ScanSequenced call on its own: position, calls of f, result
    track           \* which groups of history variables this specification records

store == <<seqObj, leafObj, cp, tileObj, attrs>>
client == <<pc, run, nextSeq, checkpointGen, opts, leaf, seq, begin, end, newCp, nodes>>
cpHist == <<hasRead, rdGen, wres, wgen, wrun, cpBy>>
seqHist == <<freshCnt, claimLost, retDupe, retFresh, raced, orphans, orphTaken, seenOrph, afterOrph>>
lastRet == <<retSeq, retErr, retFor, runLog>>
tools == <<ms, pool, lr, thr>>
reader == <<latest, scan, tools>>
vars == <<store, client, cpHist, seqHist, lastRet, scanFree, tcall, reader, track>>

\* A history variable of group g takes its new value only in a specification
\* that records the group.
Rec(g, new, old) == IF g \in track THEN new ELSE old

\* ------------------------------------------------------------ the bucket
\* ------------------------------------------------- Cache-Control of objects
\* requestData / ClientOpts without the two cache-control parameters.
NoOptions == [checkpointCacheControl |-> "", otherCacheControl |-> ""]

\* The parameters a request may carry: in the specification that looks at the
\* attributes of the objects every request carries both, in the others none.
CacheOptions ==
    IF "attr" \in track
    THEN {[checkpointCacheControl |-> "no-cache", otherCacheControl |-> "max-age=3600"]}
    ELSE {NoOptions}

\* No object carries a Cache-Control value.
NoAttrs ==
    [seq |-> [n \in Indices |-> ""], leaves |-> [h \in Hashes |-> ""],
     tile |-> <<>>, checkpoint |-> ""]

\* Client.Sequence: ObjectAttrs.CacheControl of the writer of seq/<n>.
SeqCacheControl(o) == o.otherCacheControl

\* Client.Sequence: ObjectAttrs.CacheControl of wLeaf, the writer of
\* leaves/<h>. The assignment that follows its creation is made to w, the
\* writer of seq/<n> that is closed already, so wLeaf keeps the zero value.
LeafCacheControl(o) == ""

\* Client.StoreTile: ObjectAttrs.CacheControl of the tile writer.
TileCacheControl(o) == o.otherCacheControl

\* Client.WriteCheckpoint: ObjectAttrs.CacheControl of the checkpoint writer.
CheckpointCacheControl(o) == o.checkpointCacheControl

CheckpointExists == cp.gen # 0

SeqExists(n) == n \in Indices /\ seqObj[n] # NoEntry

LeafExists(h) == leafObj[h] # NoObject

TileExists(path) == path \in DOMAIN tileObj

\* Lowest index with no seq/ object.
FirstFree ==
    IF \A n \in Indices : seqObj[n] # NoEntry THEN MaxSeq
    ELSE CHOOSE n \in Indices :
            /\ seqObj[n] = NoEntry
            /\ \A m \in Indices : m < n => seqObj[m] # NoEntry

\* A Sequence call in flight is named by its instance (as -p); once it has
\* claimed an index and returned, it is named by that index.
CallOf(p) == 0 - p

Rename(pairs, p, n) ==
    {(pair \ {CallOf(p)}) \cup {n} : pair \in {q \in pairs : CallOf(p) \in q}}
        \cup {q \in pairs : CallOf(p) \notin q}

Forget(pairs, p) == {q \in pairs : CallOf(p) \notin q}

TypeOK ==
    /\ seqObj \in [Indices -> Entries \cup {NoEntry}]
    /\ DOMAIN leafObj = Hashes
    /\ cp.gen \in Nat /\ cp.size \in 0..MaxSeq
    /\ pc \in [Procs -> {"idle", "rc_attrs", "rc_data", "entries",
                          "s_attrs", "s_claim", "s_leaf", "scan", "nil_cp", "store",
                          "write"}]
    /\ nextSeq \in [Procs -> 0..(MaxSeq + 1)]
    /\ checkpointGen \in [Procs -> Nat]

\* An empty bucket but for seq/, zero-valued Clients, nothing observed yet.
InitOther ==
    /\ leafObj = [h \in Hashes |-> NoObject]
    /\ cp = [gen |-> 0, origin |-> "", size |-> 0, root |-> RootHash(<<>>)]
    /\ tileObj = <<>>
    /\ attrs = NoAttrs
    /\ opts = [p \in Procs |-> NoOptions]
    /\ nodes = [p \in Procs |-> <<>>]
    /\ pc = [p \in Procs |-> "idle"]
    /\ run = [p \in Procs |-> "none"]
    /\ nextSeq = [p \in Procs |-> 0]
    /\ checkpointGen = [p \in Procs |-> 0]
    /\ leaf = [p \in Procs |-> NoLeaf]
    /\ seq = [p \in Procs |-> 0]
    /\ begin = [p \in Procs |-> 0]
    /\ end = [p \in Procs |-> 0]
    /\ newCp = [p \in Procs |-> 0]
    /\ retSeq = [p \in Procs |-> 0]
    /\ retErr = [p \in Procs |-> "none"]
    /\ retFor = [p \in Procs |-> NoLeaf]
    /\ runLog = [p \in Procs |-> <<>>]
    /\ hasRead = [p \in Procs |-> FALSE]
    /\ rdGen = [p \in Procs |-> 0]
    /\ wres = [p \in Procs |-> "none"]
    /\ wgen = [p \in Procs |-> 0]
    /\ wrun = [p \in Procs |-> "none"]
    /\ cpBy = 0
    /\ freshCnt = [n \in Indices |-> 0]
    /\ claimLost = {}
    /\ retDupe = {}
    /\ retFresh = {}
    /\ orphTaken = {}
    /\ raced = {}
    /\ orphans = {}
    /\ seenOrph = [p \in Procs |-> {}]
    /\ afterOrph = {}
    /\ scanFree = [p \in Procs |-> 0]

\* No call made yet; a tracker, where there is one, has seen the empty log.
\* NewMemStorage: an empty map, no caller inside an operation.
NewMemStorage ==
    [lock |-> 0, nextSeq |-> 0, fs |-> {}, crashed |-> FALSE,
     g |-> [c \in Procs |-> [pc |-> "idle", op |-> "none", left |-> 0, i |-> 0,
                              key |-> <<>>, dirty |-> FALSE]]]

\* newWorkerPool: no workers; the workers the factory will make are not
\* made yet.
newWorkerPool ==
    [workers |-> <<>>, made |-> 0, last |-> "none",
     w |-> [k \in 1..MaxWorkers |-> [at |-> "none", cancel |-> FALSE, done |-> FALSE,
                                      killed |-> FALSE]]]

\* Byte strings of the leaf bundles: nil, the empty string, an entry, and
\* the base64 text of an entry.
NilBytes == [enc |-> "nil", e |-> 0]
EmptyBytes == [enc |-> "raw", e |-> 0]

\* NewLeafReader: the zero tileCache, no call made; the log is empty.
NewLeafReader ==
    [logSize |-> 0, trail |-> FALSE,
     c |-> [start |-> 0, leaves |-> <<>>],
     ret |-> [how |-> "none", i |-> 0, size |-> 0, val |-> NilBytes, fetched |-> FALSE]]

\* NewThrottle(opsPerSecond); no round of Run is under way.
NewThrottle(opsPerSecond) ==
    [opsPerSecond |-> opsPerSecond, oversupply |-> 0,
     round |-> FALSE, tokenCount |-> 0, i |-> 0]

InitTools ==
    /\ ms = NewMemStorage
    /\ pool = newWorkerPool
    /\ lr = NewLeafReader
    /\ thr = NewThrottle(StartOps)

InitReader ==
    /\ InitTools
    /\ tcall = NoCall
    /\ latest = [size |-> 0, root |-> RootHash(<<>>), err |-> "nil"]

InitStore ==
    /\ seqObj = [n \in Indices |-> NoEntry]
    /\ scan = NoScan
    /\ InitOther
    /\ InitReader

Init == InitStore /\ track = {}


\* --------------------------------------------- conditions the code tests
DupeNever(h) == FALSE

\* Client.Sequence, dedupe probe: a reader for leaves/<h> could be opened.
DupeProbe(h) == LeafExists(h)

\* Client.Sequence, Attrs(seq/<n>) succeeded: the number is in use.
SeqInUse(n) == SeqExists(n)

ClaimAlways(n) == TRUE

\* Client.Sequence, gcs.Conditions{DoesNotExist: true} on the seq/ writer.
ClaimCondition(n) == seqObj[n] = NoEntry

BumpTwice(n) == n + 2

BumpNone(n) == n

\* Client.Sequence, c.nextSeq++ after a number was found in use.
Bump(n) == n + 1

SetNextSeqOffByOne(num) == num + 1

\* Client.SetNextSeq(num): the value c.nextSeq takes.
SetNextSeq(num) == num

WriteAlways(p) == TRUE

WriteIfAbsentOrRead(p) ==
    IF checkpointGen[p] = 0 THEN TRUE ELSE cp.gen = checkpointGen[p]

\* Client.WriteCheckpoint, the gcs.Conditions of the checkpoint writer:
\* DoesNotExist when no generation was recorded, GenerationMatch otherwise.
WriteCondition(p) ==
    IF checkpointGen[p] = 0 THEN ~CheckpointExists
    ELSE cp.gen = checkpointGen[p]

\* log.Integrate: the size of the checkpoint it returns after folding `count`
\* entries into the tree of size `from`.
IntegrateSize(from, count) == from + count

ScanSkips(e) == e + 2

\* Client.ScanSequenced: end++ after f was called on seq/<end>.
ScanNext(e) == e + 1

ScanReturnsEnd(b, e) == e

\* Client.ScanSequenced: the value it returns, the number of entries scanned.
ScanReturn(b, e) == e - b

\* log.Integrate: the level-0 tile that holds the last leaf of a tree of the
\* given size (the only tile an integration touches while the tree is smaller
\* than one tile), and that tile built from the leaf hashes ns.
LastTileIndex(size) == (size - 1) \div TileWidth

IntegrateTile(size, ns) ==
    [NumLeaves |-> size - LastTileIndex(size) * TileWidth, Nodes |-> ns]

StoreTileAcceptsZero(tile) == tile.NumLeaves > TileWidth

\* Client.StoreTile: the check of the tile size.
StoreTileRejects(tile) == tile.NumLeaves = 0 \/ tile.NumLeaves > TileWidth

\* Client.StoreTile: the path of the object.
StoreTilePath(level, index, tile) == TilePath(level, index, tile.NumLeaves % TileWidth)

TileWriteAlways(path) == TRUE

\* Client.StoreTile: gcs.Conditions{DoesNotExist: true} of the tile writer.
TileWriteCondition(path) == ~TileExists(path)

AssertContentAlways(path, data) == TRUE

AssertContentNever(path, data) == FALSE

\* Client.assertContent: the object's bytes equal data.
AssertContent(path, data) == tileObj[path] = data

\* Answers of the object store to the Close of the tile writer that are not
\* decided by the write condition: none, a *googleapi.Error whose code is not
\* 412 (a 403, 429 or 5xx), or an error of another type (transport, context).
\* The object is not written under either error.
CloseFaults == {"none", "ApiError", "OtherError"}

\* Client.StoreTile: what w.Close() returns ("nil" for no error).
CloseError(path, fault) ==
    IF fault # "none" THEN fault
    ELSE IF TileWriteCondition(path) THEN "nil"
    ELSE "PreconditionFailed"

\* Client.StoreTile: the error it returns ("nil" for none). A *googleapi.Error
\* of a code other than 412 matches the first case of the type switch, skips
\* the if, leaves the switch and reaches the final return nil.
StoreTileResult(level, index, tile, fault) ==
    LET path == StoreTilePath(level, index, tile)
        closed == CloseError(path, fault) IN
    IF StoreTileRejects(tile) THEN "ErrTileSize"
    ELSE IF closed = "nil" THEN "nil"
    ELSE IF closed = "PreconditionFailed"
         THEN IF AssertContent(path, MarshalText(tile)) THEN "nil"
              ELSE "ErrContentChanged"
    ELSE IF closed = "ApiError" THEN "nil"
    ELSE "ErrClose"

\* Client.StoreTile: the Cache-Control values of the objects after the call.
StoreTileAttrs(level, index, tile, fault, o) ==
    LET path == StoreTilePath(level, index, tile) IN
    IF ~StoreTileRejects(tile) /\ CloseError(path, fault) = "nil"
    THEN [attrs EXCEPT !.tile = [q \in DOMAIN tileObj \cup {path} |->
                                    IF q = path THEN TileCacheControl(o) ELSE attrs.tile[q]]]
    ELSE attrs

StoreTileBucketLatestOnly(level, index, tile, fault) ==
    LET path == StoreTilePath(level, index, tile) IN
    IF ~StoreTileRejects(tile) /\ CloseError(path, fault) = "nil"
    THEN [q \in {path} |-> MarshalText(tile)]
    ELSE tileObj

\* Client.StoreTile: the tile objects after the call.
StoreTileBucket(level, index, tile, fault) ==
    LET path == StoreTilePath(level, index, tile) IN
    IF ~StoreTileRejects(tile) /\ CloseError(path, fault) = "nil"
    THEN [q \in DOMAIN tileObj \cup {path} |->
             IF q = path THEN MarshalText(tile) ELSE tileObj[q]]
    ELSE tileObj

GetTileFullOnly(level, index, logSize) == TilePath(level, index, 0)

\* Client.GetTile: the one path it reads.
GetTilePath(level, index, logSize) ==
    TilePath(level, index, PartialTileSize(level, index, logSize))

\* Client.GetTile: the tile parsed from the object, or NotExist.
GetTile(level, index, logSize) ==
    LET path == GetTilePath(level, index, logSize) IN
    IF TileExists(path) THEN UnmarshalText(tileObj[path]) ELSE NotExist

\* ------------------------------------------------------ instance life cycle
\* A fresh storage.Client (NewClient) and fresh locals of the entry point.
Fresh(p, kind, at, o) ==
    /\ pc' = [pc EXCEPT ![p] = at]
    /\ run' = [run EXCEPT ![p] = kind]
    /\ nextSeq' = [nextSeq EXCEPT ![p] = 0]
    /\ checkpointGen' = [checkpointGen EXCEPT ![p] = 0]
    /\ opts' = [opts EXCEPT ![p] = o]
    /\ leaf' = [leaf EXCEPT ![p] = NoLeaf]
    /\ seq' = [seq EXCEPT ![p] = 0]
    /\ begin' = [begin EXCEPT ![p] = 0]
    /\ end' = [end EXCEPT ![p] = 0]
    /\ newCp' = [newCp EXCEPT ![p] = 0]
    /\ nodes' = [nodes EXCEPT ![p] = <<>>]
    /\ retSeq' = [retSeq EXCEPT ![p] = 0]
    /\ retErr' = [retErr EXCEPT ![p] = "none"]
    /\ retFor' = [retFor EXCEPT ![p] = NoLeaf]
    /\ runLog' = [runLog EXCEPT ![p] = <<>>]
    /\ hasRead' = [hasRead EXCEPT ![p] = FALSE]
    /\ scanFree' = [scanFree EXCEPT ![p] = 0]
    /\ track' = track

\* The entry point returns (or the instance dies): its Client is gone.
EndRun(p) == Fresh(p, "none", "idle", NoOptions)

Begin(p, kind, at) ==
    /\ pc[p] = "idle"
    /\ \E o \in CacheOptions : Fresh(p, kind, at, o)
    /\ rdGen' = [rdGen EXCEPT ![p] = 0]
    /\ wres' = [wres EXCEPT ![p] = "none"]
    /\ wgen' = [wgen EXCEPT ![p] = 0]
    /\ wrun' = [wrun EXCEPT ![p] = "none"]
    /\ UNCHANGED <<store, cpBy, seqHist>>
    /\ UNCHANGED <<tcall, reader>>

\* Integrate with initialise: the empty checkpoint goes to signAndWrite.
StartInit(p) == Begin(p, "init", "write")

\* Sequence entry point, up to its ReadCheckpoint call.
StartSequence(p) == Begin(p, "sequence", "rc_attrs")

\* Integrate entry point, up to its ReadCheckpoint call.
StartIntegrate(p) == Begin(p, "integrate", "rc_attrs")

\* The instance stops between two storage calls (crash, timeout, transport
\* error returned to the entry point).
Stop(p) ==
    /\ pc[p] # "idle"
    /\ EndRun(p)
    /\ orphans' = IF pc[p] = "s_leaf"
                  THEN Rec("orph", orphans \cup {<<seq[p], HashLeaf(leaf[p])>>}, orphans)
                  ELSE orphans
    /\ raced' = Forget(raced, p)
    /\ seenOrph' = [seenOrph EXCEPT ![p] = {}]
    /\ UNCHANGED <<store, rdGen, wres, wgen, wrun, cpBy, freshCnt, claimLost, retDupe,
                   retFresh, orphTaken, afterOrph>>
    /\ UNCHANGED <<tcall, reader>>

\* ----------------------------------------------------------- checkpoint I/O
\* ReadCheckpoint, obj.Attrs: record the generation.
ReadCheckpointAttrs(p) ==
    /\ pc[p] = "rc_attrs"
    /\ IF CheckpointExists
       THEN /\ checkpointGen' = [checkpointGen EXCEPT ![p] = cp.gen]
            /\ pc' = [pc EXCEPT ![p] = "rc_data"]
            /\ hasRead' = [hasRead EXCEPT ![p] = TRUE]
            /\ UNCHANGED <<run, nextSeq, opts, leaf, seq, begin, end, newCp, lastRet,
                           scanFree, track, nodes>>
       ELSE \* the error ends the sequence run; the integrate run goes on without a
            \* checkpoint and dies on cp.Size
            EndRun(p)
    /\ UNCHANGED <<store, rdGen, wres, wgen, wrun, cpBy, seqHist>>
    /\ UNCHANGED <<tcall, reader>>

\* ReadCheckpoint, obj.NewReader + ReadAll, then ParseCheckpoint and
\* SetNextSeq(cp.Size) (sequence) or the call of log.Integrate (integrate),
\* which first loads the tree of cp.Size from its tile.
ReadCheckpointData(p) ==
    /\ pc[p] = "rc_data"
    /\ rdGen' = Rec("cp", [rdGen EXCEPT ![p] = cp.gen], rdGen)
    /\ IF run[p] = "sequence"
       THEN /\ nextSeq' = [nextSeq EXCEPT ![p] = SetNextSeq(cp.size)]
            /\ pc' = [pc EXCEPT ![p] = "entries"]
            /\ UNCHANGED <<begin, end, scanFree>>
            /\ UNCHANGED <<run, checkpointGen, opts, leaf, seq, newCp, nodes, lastRet,
                           hasRead, track>>
       ELSE LET old == GetTile(0, LastTileIndex(cp.size), cp.size) IN
            IF cp.size > 0 /\ ~TileExists(GetTilePath(0, LastTileIndex(cp.size), cp.size))
            THEN \* log.Integrate fails to load the tree and the run ends
                 EndRun(p)
            ELSE /\ begin' = [begin EXCEPT ![p] = cp.size]
                 /\ end' = [end EXCEPT ![p] = cp.size]
                 /\ nodes' = [nodes EXCEPT ![p] = IF cp.size = 0 THEN <<>> ELSE old.Nodes]
                 /\ scanFree' = Rec("after", [scanFree EXCEPT ![p] = FirstFree], scanFree)
                 /\ pc' = [pc EXCEPT ![p] = "scan"]
                 /\ UNCHANGED <<run, nextSeq, checkpointGen, opts, leaf, seq, newCp, lastRet,
                                hasRead, track>>
    /\ UNCHANGED <<store, wres, wgen, wrun, cpBy, seqHist>>
    /\ UNCHANGED <<tcall, reader>>

\* requestData.Origin, the origin every request of this log carries.
LogOrigin == "example.com/log"

InitCheckpointNoHash == [size |-> 0, root |-> <<>>]

\* Integrate with initialise: fmtlog.Checkpoint{Hash: h.EmptyRoot()}.
InitCheckpoint == [size |-> 0, root |-> RootHash(<<>>)]

\* The checkpoint the entry point hands to signAndWrite.
SignedCheckpoint(p) ==
    IF run[p] = "init" THEN InitCheckpoint
    ELSE [size |-> newCp[p], root |-> RootHash(nodes[p])]

\* signAndWrite (cp.Origin = origin) -> Client.WriteCheckpoint; the entry point
\* returns after it.
WriteCheckpoint(p) ==
    /\ pc[p] = "write"
    /\ IF WriteCondition(p)
       THEN /\ cp' = [gen |-> cp.gen + 1, origin |-> LogOrigin,
                      size |-> SignedCheckpoint(p).size, root |-> SignedCheckpoint(p).root]
            /\ attrs' = [attrs EXCEPT !.checkpoint = CheckpointCacheControl(opts[p])]
            /\ wres' = Rec("cp", [wres EXCEPT ![p] = "ok"], wres)
            /\ cpBy' = Rec("cp", p, cpBy)
       ELSE /\ cp' = cp
            /\ attrs' = attrs
            /\ wres' = Rec("cp", [wres EXCEPT ![p] = "precondition"], wres)
            /\ cpBy' = cpBy
    /\ wgen' = Rec("cp", [wgen EXCEPT ![p] = cp'.gen], wgen)
    /\ wrun' = Rec("cp", [wrun EXCEPT ![p] = run[p]], wrun)
    /\ EndRun(p)
    /\ UNCHANGED <<seqObj, leafObj, tileObj, rdGen, seqHist>>
    /\ UNCHANGED <<tcall, reader>>

\* ------------------------------------------------------------- integration
\* ScanSequenced: seq/<end> was read and handed to f.
ScanSequenced(p) ==
    /\ pc[p] = "scan"
    /\ SeqExists(end[p])
    /\ nodes' = [nodes EXCEPT ![p] = Append(nodes[p], HashLeaf(seqObj[end[p]]))]
    /\ end' = [end EXCEPT ![p] = ScanNext(end[p])]
    /\ UNCHANGED <<store, pc, run, nextSeq, checkpointGen, opts, leaf, seq, begin, newCp,
                   lastRet, cpHist, seqHist, scanFree, track>>
    /\ UNCHANGED <<tcall, reader>>

\* ScanSequenced: seq/<end> does not exist, the scan returns end - begin.
\* log.Integrate returns no checkpoint when nothing was scanned, else it goes
\* on to store the tile of the new tree.
IntegrateDone(p) ==
    /\ pc[p] = "scan"
    /\ ~SeqExists(end[p])
    /\ IF ScanReturn(begin[p], end[p]) = 0
       THEN /\ pc' = [pc EXCEPT ![p] = "nil_cp"]
            /\ UNCHANGED newCp
       ELSE /\ newCp' = [newCp EXCEPT ![p] = IntegrateSize(begin[p], end[p] - begin[p])]
            /\ pc' = [pc EXCEPT ![p] = "store"]
    /\ UNCHANGED <<run, nextSeq, checkpointGen, opts, leaf, seq, begin, end, nodes,
                   lastRet, hasRead, scanFree, track>>
    /\ UNCHANGED <<store, rdGen, wres, wgen, wrun, cpBy, seqHist>>
    /\ UNCHANGED <<tcall, reader>>

\* Integrate entry point with newCp == nil: it answers "Nothing to integrate",
\* does not return, and dies in signAndWrite on the nil checkpoint before any
\* storage call.
SignNilCheckpoint(p) ==
    /\ pc[p] = "nil_cp"
    /\ EndRun(p)
    /\ UNCHANGED <<store, rdGen, wres, wgen, wrun, cpBy, seqHist>>
    /\ UNCHANGED <<tcall, reader>>

\* log.Integrate stores the tile of the new tree with Client.StoreTile and
\* returns the new checkpoint, or the error of StoreTile, on which the entry
\* point returns.
StoreTile(p) ==
    \E fault \in CloseFaults :
    LET index == LastTileIndex(newCp[p])
        tile == IntegrateTile(newCp[p], nodes[p])
        err == StoreTileResult(0, index, tile, fault) IN
    /\ pc[p] = "store"
    /\ tileObj' = StoreTileBucket(0, index, tile, fault)
    /\ attrs' = StoreTileAttrs(0, index, tile, fault, opts[p])
    /\ tcall' = Rec("tile", [op |-> "StoreTile", level |-> 0, index |-> index,
                              tile |-> tile, fault |-> fault, err |-> err], tcall)
    /\ IF err = "nil"
       THEN /\ pc' = [pc EXCEPT ![p] = "write"]
            /\ UNCHANGED <<run, nextSeq, checkpointGen, opts, leaf, seq, begin, end, newCp,
                           nodes, lastRet, hasRead, scanFree, track>>
       ELSE EndRun(p)
    /\ UNCHANGED <<seqObj, leafObj, cp, rdGen, wres, wgen, wrun, cpBy, seqHist, reader>>

\* -------------------------------------------------------------- sequencing
\* Sequence entry point: iterator.Done, the function returns.
DoneEntries(p) ==
    /\ pc[p] = "entries"
    /\ EndRun(p)
    /\ UNCHANGED <<store, rdGen, wres, wgen, wrun, cpBy, seqHist>>
    /\ UNCHANGED <<tcall, reader>>

\* Sequence calls of other instances that are past their dedupe probe for
\* hash h and have not written leaves/<h> yet.
InFlight(p, h) ==
    {q \in Procs \ {p} : /\ pc[q] \in {"s_attrs", "s_claim", "s_leaf"}
                         /\ HashLeaf(leaf[q]) = h}

\* Orphans of hash h after which no Sequence call for h has begun yet.
NewOrphans(h) == Rec("after", {o \in orphans \ orphTaken : o[2] = h}, {})

\* Sequence entry point, the error of client.Sequence: errors.Is(err,
\* log.ErrDupeLeaf) sets dupe and the loop goes on, any other error returns.
DupeAborts == FALSE

DupeContinues == TRUE

\* The run's results with one more, as far as they are recorded.
Logged(p, err) ==
    IF Len(runLog[p]) < MaxCalls
    THEN Rec("run", [runLog EXCEPT ![p] = Append(@, err)], runLog)
    ELSE runLog

\* Sequence entry point: the object iterator yields entry e, its data is read
\* and hashed, and Client.Sequence is called with it.
\* Client.Sequence, step 1: the dedupe probe of leaves/<h>.
SeqProbe(p, e) ==
    LET h == HashLeaf(e) IN
    /\ pc[p] = "entries"
    /\ IF DupeProbe(h)
       THEN IF ParseUintOK(leafObj[h], 16)
            THEN \* return origSeq, ErrDupeLeaf: the entry point goes on
                 LET origSeq == ParseUint(leafObj[h], 16) IN
                 IF DupeContinues
                 THEN /\ retSeq' = Rec("res", [retSeq EXCEPT ![p] = origSeq], retSeq)
                      /\ retErr' = Rec("res", [retErr EXCEPT ![p] = "ErrDupeLeaf"], retErr)
                      /\ retFor' = Rec("res", [retFor EXCEPT ![p] = e], retFor)
                      /\ runLog' = Logged(p, "ErrDupeLeaf")
                      /\ retDupe' = Rec("rets", retDupe \cup {<<h, origSeq>>}, retDupe)
                      /\ afterOrph' = afterOrph \cup
                             {<<o[1], h, "ErrDupeLeaf", origSeq>> : o \in NewOrphans(h)}
                      /\ orphTaken' = orphTaken \cup NewOrphans(h)
                      /\ UNCHANGED <<client, hasRead, scanFree, track, raced, seenOrph>>
                 ELSE /\ EndRun(p)
                      /\ UNCHANGED <<retDupe, afterOrph, orphTaken, raced, seenOrph>>
            ELSE \* the parse error is returned and ends the run
                 /\ EndRun(p)
                 /\ UNCHANGED <<retDupe, afterOrph, orphTaken, raced, seenOrph>>
       ELSE /\ pc' = [pc EXCEPT ![p] = "s_attrs"]
            /\ leaf' = [leaf EXCEPT ![p] = e]
            /\ raced' = Rec("race", raced \cup {{CallOf(p), CallOf(q)} : q \in InFlight(p, h)},
                             raced)
            /\ seenOrph' = [seenOrph EXCEPT ![p] = {o[1] : o \in NewOrphans(h)}]
            /\ orphTaken' = orphTaken \cup NewOrphans(h)
            /\ retSeq' = [retSeq EXCEPT ![p] = 0]
            /\ retErr' = [retErr EXCEPT ![p] = "none"]
            /\ retFor' = [retFor EXCEPT ![p] = NoLeaf]
            /\ UNCHANGED <<runLog, run, nextSeq, checkpointGen, opts, seq, begin, end, newCp, hasRead,
                           scanFree, track, retDupe, afterOrph, nodes>>
    /\ UNCHANGED <<store, rdGen, wres, wgen, wrun, cpBy, freshCnt, claimLost, retFresh,
                   orphans>>
    /\ UNCHANGED <<tcall, reader>>

\* Client.Sequence, step 2: seq := c.nextSeq and the Attrs probe of seq/<seq>.
SeqAttrs(p) ==
    /\ pc[p] = "s_attrs"
    /\ nextSeq[p] < MaxSeq
    /\ IF SeqInUse(nextSeq[p])
       THEN /\ nextSeq' = [nextSeq EXCEPT ![p] = Bump(nextSeq[p])]
            /\ UNCHANGED <<pc, seq>>
       ELSE /\ seq' = [seq EXCEPT ![p] = nextSeq[p]]
            /\ pc' = [pc EXCEPT ![p] = "s_claim"]
            /\ UNCHANGED nextSeq
    /\ UNCHANGED <<store, run, checkpointGen, opts, leaf, begin, end, newCp, lastRet,
                   cpHist, seqHist, scanFree, track, nodes>>
    /\ UNCHANGED <<tcall, reader>>

\* Client.Sequence, step 3: the conditional write of seq/<seq>; on a
\* precondition failure c.nextSeq++ and back to step 2.
SeqClaim(p) ==
    /\ pc[p] = "s_claim"
    /\ IF ClaimCondition(seq[p])
       THEN /\ seqObj' = [seqObj EXCEPT ![seq[p]] = leaf[p]]
            /\ attrs' = [attrs EXCEPT !.seq[seq[p]] = SeqCacheControl(opts[p])]
            /\ pc' = [pc EXCEPT ![p] = "s_leaf"]
            /\ UNCHANGED <<nextSeq, seq, claimLost>>
       ELSE /\ nextSeq' = [nextSeq EXCEPT ![p] = Bump(nextSeq[p])]
            /\ seq' = [seq EXCEPT ![p] = 0]
            /\ claimLost' = Rec("ret", claimLost \cup {seq[p]}, claimLost)
            /\ pc' = [pc EXCEPT ![p] = "s_attrs"]
            /\ UNCHANGED <<seqObj, attrs>>
    /\ UNCHANGED <<leafObj, cp, run, checkpointGen, opts, leaf, begin, end, newCp, lastRet, cpHist, freshCnt, retDupe, retFresh, raced, orphans, orphTaken, seenOrph,
                   afterOrph, scanFree, track, nodes, tileObj>>
    /\ UNCHANGED <<tcall, reader>>

\* Client.Sequence, step 4: the unconditional write of leaves/<h> with the
\* number in base 16, and the return of seq.
SeqLeaf(p) ==
    LET h == HashLeaf(leaf[p]) IN
    /\ pc[p] = "s_leaf"
    /\ leafObj' = [leafObj EXCEPT ![h] = FormatUint(seq[p], 16)]
    /\ attrs' = [attrs EXCEPT !.leaves[h] = LeafCacheControl(opts[p])]
    /\ retSeq' = Rec("res", [retSeq EXCEPT ![p] = seq[p]], retSeq)
    /\ retErr' = Rec("res", [retErr EXCEPT ![p] = "nil"], retErr)
    /\ retFor' = Rec("res", [retFor EXCEPT ![p] = leaf[p]], retFor)
    /\ runLog' = Logged(p, "nil")
    /\ pc' = [pc EXCEPT ![p] = "entries"]
    /\ leaf' = [leaf EXCEPT ![p] = NoLeaf]
    /\ seq' = [seq EXCEPT ![p] = 0]
    /\ freshCnt' = Rec("ret", [freshCnt EXCEPT ![seq[p]] = IF @ < 2 THEN @ + 1 ELSE @],
                        freshCnt)
    /\ retFresh' = Rec("rets", retFresh \cup {<<h, seq[p]>>}, retFresh)
    /\ raced' = Rename(raced, p, seq[p])
    /\ afterOrph' = afterOrph \cup {<<n, h, "nil", seq[p]>> : n \in seenOrph[p]}
    /\ seenOrph' = [seenOrph EXCEPT ![p] = {}]
    /\ UNCHANGED <<seqObj, cp, run, nextSeq, checkpointGen, opts, begin, end, newCp,
                   cpHist, claimLost, retDupe, orphans, orphTaken, scanFree, track, nodes, tileObj>>
    /\ UNCHANGED <<tcall, reader>>
Next ==
    \E p \in Procs :
        \/ StartInit(p)
        \/ StartSequence(p)
        \/ StartIntegrate(p)
        \/ Stop(p)
        \/ ReadCheckpointAttrs(p)
        \/ ReadCheckpointData(p)
        \/ WriteCheckpoint(p)
        \/ ScanSequenced(p)
        \/ IntegrateDone(p)
        \/ SignNilCheckpoint(p)
        \/ StoreTile(p)
        \/ DoneEntries(p)
        \/ \E e \in Entries : SeqProbe(p, e)
        \/ SeqAttrs(p)
        \/ SeqClaim(p)
        \/ SeqLeaf(p)

Spec == Init /\ [][Next]_vars


\* The same program, recording the history of checkpoint reads and writes.
InitCp == InitStore /\ track = {"cp"}
SpecCp == InitCp /\ [][Next]_vars

\* The same program, recording which indices Sequence calls returned.
InitRet == InitStore /\ track = {"ret"}
SpecRet == InitRet /\ [][Next]_vars

\* The same program, recording the result of each instance's last Sequence call.
InitRes == InitStore /\ track = {"res"}
SpecRes == InitRes /\ [][Next]_vars

\* The program with the history of racing and returned Sequence calls recorded.
InitDupe == InitStore /\ track = {"race", "rets"}
SpecDupe == InitDupe /\ [][Next]_vars

\* The program with the history of stopped Sequence calls recorded.
InitOrph == InitStore /\ track = {"orph", "after"}
SpecOrph == InitOrph /\ [][Next]_vars

\* The program with the history of racing and of stopped calls recorded.
InitRace == InitStore /\ track = {"race", "orph"}
SpecRace == InitRace /\ [][Next]_vars

\* The program with requests that carry cache-control parameters.
InitAttr == InitStore /\ track = {"attr"}
SpecAttr == InitAttr /\ [][Next]_vars

\* ------------------------------------------------ the tile store by itself
\* A caller of the storage Client hands it a tile of n tile leaves.
TileOf(n, seed) == [NumLeaves |-> n, Nodes |-> [i \in 1..n |-> <<0, seed>>]]

\* Client.StoreTile called with any tile, under any answer of the store.
CallStoreTile(level, index, tile, fault) ==
    /\ Cardinality(DOMAIN StoreTileBucket(level, index, tile, fault)) <= MaxTiles
    /\ tileObj' = StoreTileBucket(level, index, tile, fault)
    /\ tcall' = Rec("tile", [op |-> "StoreTile", level |-> level, index |-> index,
                              tile |-> tile, fault |-> fault,
                              err |-> StoreTileResult(level, index, tile, fault)],
                     tcall)
    /\ attrs' = StoreTileAttrs(level, index, tile, fault, NoOptions)
    /\ UNCHANGED <<seqObj, leafObj, cp, client, cpHist, seqHist, lastRet, scanFree, reader, track>>

\* Client.GetTile called for any tree size.
CallGetTile(level, index, logSize) ==
    /\ tcall' = Rec("tile", [op |-> "GetTile", level |-> level, index |-> index,
                              logSize |-> logSize, tile |-> GetTile(level, index, logSize)],
                     tcall)
    /\ UNCHANGED <<store, client, cpHist, seqHist, lastRet, scanFree, reader, track>>

NextTile ==
    \E id \in TileIds :
        \/ \E n \in TileSizes, seed \in NodeSeeds, fault \in CloseFaults :
              CallStoreTile(id[1], id[2], TileOf(n, seed), fault)
        \/ \E logSize \in LogSizes : CallGetTile(id[1], id[2], logSize)

InitTile == InitStore /\ track = {"tile"}
SpecTile == InitTile /\ [][NextTile]_vars

\* ------------------------------------------------ ScanSequenced by itself
\* MemStorage.ScanSequenced: i++ of its loop, and the value it returns.
MemScanNext(i) == i + 1

MemScanReturn(b, i) == i

\* A call ScanSequenced(begin, f) before its first read; f returns an error
\* when it is called on index failAt (never, if failAt = MaxSeq).
NewScan(b, failAt) ==
    [begin |-> b, failAt |-> failAt,
     gcs |-> [at |-> b, called |-> <<>>, done |-> FALSE, ret |-> 0, err |-> "nil"],
     mem |-> [at |-> b, called |-> <<>>, done |-> FALSE, ret |-> 0, err |-> "nil"]]

\* One turn of the loop of a scan that is at index s.at: the object is absent
\* and the scan returns, or f is called on it and fails or the scan moves on.
ScanTurn(s, next, ret) ==
    IF ~SeqExists(s.at)
    THEN [s EXCEPT !.done = TRUE, !.ret = ret]
    ELSE IF s.at = scan.failAt
         THEN [s EXCEPT !.called = Append(s.called, s.at), !.done = TRUE,
                        !.ret = ret, !.err = "ErrCallback"]
         ELSE [s EXCEPT !.called = Append(s.called, s.at), !.at = next]

\* Client.ScanSequenced, one turn of its loop.
GcsScanStep ==
    /\ ~scan.gcs.done
    /\ scan' = [scan EXCEPT !.gcs = ScanTurn(scan.gcs, ScanNext(scan.gcs.at),
                                               ScanReturn(scan.begin, scan.gcs.at))]
    /\ UNCHANGED <<store, client, cpHist, seqHist, lastRet, scanFree, tcall, latest, tools, track>>

\* MemStorage.ScanSequenced, one turn of its loop.
MemScanStep ==
    /\ ~scan.mem.done
    /\ scan' = [scan EXCEPT !.mem = ScanTurn(scan.mem, MemScanNext(scan.mem.at),
                                               MemScanReturn(scan.begin, scan.mem.at))]
    /\ UNCHANGED <<store, client, cpHist, seqHist, lastRet, scanFree, tcall, latest, tools, track>>

NextScan == GcsScanStep \/ MemScanStep

\* Any seq/ objects, any begin, any index for f to fail on.
InitScan ==
    /\ seqObj \in [Indices -> Entries \cup {NoEntry}]
    /\ \E b \in 0..MaxSeq, failAt \in 0..MaxSeq : scan = NewScan(b, failAt)
    /\ InitOther
    /\ InitReader
    /\ track = {}

SpecScan == InitScan /\ [][NextScan]_vars

\* ------------------------------------------------ the log state tracker
\* The consistency proof between two checkpoints verifies: the leaves of the
\* old tree are the first leaves of the new one.
Consistent(old, new) ==
    /\ Len(old.root[2]) <= Len(new.root[2])
    /\ SubSeq(new.root[2], 1, Len(old.root[2])) = old.root[2]

\* The tile a reader gets for the leaf hashes of a tree of `size` leaves, or
\* NotExist when the tile is not there.
ServedTile(size) ==
    IF size = 0 THEN [NumLeaves |-> 0, Nodes |-> <<>>]
    ELSE GetTile(0, LastTileIndex(size), size)

VerifyAlways(old, new, served) == TRUE

\* The consistency proof between old and new, built from the leaf hashes the
\* log serves for the tree of new.size leaves, verifies against both roots.
VerifyConsistency(old, new, served) ==
    /\ Len(served.Nodes) = new.size
    /\ old.size <= new.size
    /\ RootHash(SubSeq(served.Nodes, 1, old.size)) = old.root
    /\ RootHash(served.Nodes) = new.root

\* What can go wrong in step 1 of Update besides the origin: the fetch of the
\* checkpoint fails, or the signature of the note does not verify.
UpdateFaults == {"none", "ErrFetch", "ErrSignature"}

UpdateAdoptsAny(old, fetched, fault, served) ==
    IF fault # "none" THEN [old EXCEPT !.err = fault]
    ELSE [size |-> fetched.size, root |-> fetched.root, err |-> "nil"]

\* LogStateTracker.Update: LatestConsistent and the returned error after it
\* fetched the checkpoint `fetched`, `served` being the tile the log holds
\* for the tree of that size. A checkpoint smaller than LatestConsistent is
\* passed over without error (the "Out of order" updates of the tracker's
\* test all return nil).
Update(old, fetched, fault, served) ==
    IF fault # "none" THEN [old EXCEPT !.err = fault]
    ELSE IF fetched.origin # LogOrigin THEN [old EXCEPT !.err = "ErrOrigin"]
    ELSE IF fetched.size < old.size THEN [old EXCEPT !.err = "nil"]
    ELSE IF fetched.size = old.size
         THEN [old EXCEPT !.err = IF fetched.root = old.root THEN "nil"
                                  ELSE "ErrInconsistency"]
    ELSE IF served = NotExist THEN [old EXCEPT !.err = "ErrNotExist"]
    ELSE IF VerifyConsistency(old, fetched, served)
         THEN [size |-> fetched.size, root |-> fetched.root, err |-> "nil"]
    ELSE [old EXCEPT !.err = "ErrInconsistency"]

\* A reader calls LogStateTracker.Update on the log in the bucket.
TrackerUpdate ==
    /\ CheckpointExists
    /\ \E fault \in UpdateFaults :
           latest' = Update(latest, cp, fault, ServedTile(cp.size))
    /\ UNCHANGED <<store, client, cpHist, seqHist, lastRet, scanFree, tcall, scan, tools, track>>

\* The program and a reader that follows the log with a state tracker.
NextTrk == Next \/ TrackerUpdate

SpecTrk == Init /\ [][NextTrk]_vars

\* ------------------------------------------------ the read side by itself
\* Leaf hashes of the trees a log may present: up to MaxSeq copies of one
\* entry. Two trees of the same entry are prefixes of one another, two trees
\* of different entries are forks.
TreeLeaves == {[i \in 1..n |-> h] : n \in 0..MaxSeq, h \in Hashes}

Roots == {RootHash(l) : l \in TreeLeaves}

\* Checkpoints a log, honest or not, may present for the origin o: any size
\* with any root.
CheckpointsOf(o) ==
    {[origin |-> o, size |-> n, root |-> r] : n \in 0..MaxSeq, r \in Roots}

\* Checkpoints of another log: the size and the root of one tree.
OtherOrigin == "other.example/log"

OtherCheckpoints ==
    {[origin |-> OtherOrigin, size |-> Len(l), root |-> RootHash(l)] : l \in TreeLeaves}

\* What a log may hold as the leaf hashes of its tree, or nothing at all.
Served == {[NumLeaves |-> Len(l), Nodes |-> l] : l \in TreeLeaves} \cup {NotExist}

\* The leaf hashes a log that holds `served` gives for the tree of `size`
\* leaves.
TileAt(served, size) ==
    IF served = NotExist THEN NotExist
    ELSE IF Len(served.Nodes) < size THEN NotExist
    ELSE [NumLeaves |-> size, Nodes |-> SubSeq(served.Nodes, 1, size)]

\* client.CheckConsistency on a list of checkpoints: at least two, taken in
\* order of size; two of one size must have one root, and a smaller one must
\* be consistent with the next larger one.
RECURSIVE InsertBySize(_, _)
InsertBySize(c, cps) ==
    IF cps = <<>> THEN <<c>>
    ELSE IF c.size <= Head(cps).size THEN <<c>> \o cps
    ELSE <<Head(cps)>> \o InsertBySize(c, Tail(cps))

RECURSIVE SortBySize(_)
SortBySize(cps) ==
    IF cps = <<>> THEN <<>> ELSE InsertBySize(Head(cps), SortBySize(Tail(cps)))

PairProofOnly(a, b, served) ==
    /\ TileAt(served, b.size) # NotExist
    /\ VerifyConsistency(a, b, TileAt(served, b.size))

PairConsistent(a, b, served) ==
    IF a.size = b.size THEN a.root = b.root
    ELSE /\ TileAt(served, b.size) # NotExist
         /\ VerifyConsistency(a, b, TileAt(served, b.size))

CheckConsistency(cps, served) ==
    LET sorted == SortBySize(cps) IN
    IF Len(cps) < 2 THEN "ErrTooFewCheckpoints"
    ELSE IF \A i \in 1..(Len(sorted) - 1) : PairConsistent(sorted[i], sorted[i + 1], served)
         THEN "nil"
    ELSE "ErrInconsistency"

\* LogStateTracker.Update called on a log that presents the checkpoint
\* `fetched` and holds `served`; the call is kept with its error and with
\* whether the consistency proof from the tracked checkpoint verified.
CallUpdate(fetched, fault, served) ==
    /\ latest' = Update(latest, fetched, fault, TileAt(served, fetched.size))
    /\ tcall' = [op |-> "Update", fetched |-> fetched, fault |-> fault,
                 verified |-> /\ TileAt(served, fetched.size) # NotExist
                              /\ VerifyConsistency(latest, fetched,
                                                   TileAt(served, fetched.size)),
                 err |-> Update(latest, fetched, fault, TileAt(served, fetched.size)).err]
    /\ UNCHANGED <<store, client, cpHist, seqHist, lastRet, scanFree, scan, tools, track>>

\* A tracker that starts from the empty log and is updated again and again,
\* the log presenting any checkpoint and holding any tree each time.
NextLst ==
    \/ \E fetched \in CheckpointsOf(LogOrigin) \cup OtherCheckpoints, served \in Served :
           CallUpdate(fetched, "none", served)
    \/ \E fault \in UpdateFaults \ {"none"} : CallUpdate(cp, fault, NotExist)

InitLst ==
    /\ InitStore
    /\ track = {}

SpecLst == InitLst /\ [][NextLst]_vars

\* --------------------------------------------- two checkpoints of one log
NoPair == "none"

\* A pair of checkpoints of the log, what the log holds, and what
\* CheckConsistency and Update said of them so far.
NewPair(a, b, served) ==
    [op |-> "pair", cps |-> <<a, b>>, served |-> served, err |-> NoPair, updated |-> FALSE]

\* client.CheckConsistency on the pair.
CheckPair ==
    /\ tcall.op = "pair"
    /\ tcall.err = NoPair
    /\ tcall' = [tcall EXCEPT !.err = CheckConsistency(tcall.cps, tcall.served)]
    /\ UNCHANGED <<store, client, cpHist, seqHist, lastRet, scanFree, reader, track>>

\* The tracker made from the first checkpoint of the pair fetches the second.
UpdatePair ==
    /\ tcall.op = "pair"
    /\ ~tcall.updated
    /\ latest' = Update(latest, tcall.cps[2], "none", TileAt(tcall.served, tcall.cps[2].size))
    /\ tcall' = [tcall EXCEPT !.updated = TRUE]
    /\ UNCHANGED <<store, client, cpHist, seqHist, lastRet, scanFree, scan, tools, track>>

NextPair == CheckPair \/ UpdatePair

\* NewLogStateTracker: the tracker starts from the first checkpoint.
InitPair ==
    /\ seqObj = [n \in Indices |-> NoEntry]
    /\ scan = NoScan
    /\ InitOther
    /\ InitTools
    /\ \E a \in CheckpointsOf(LogOrigin), b \in CheckpointsOf(LogOrigin), served \in Served :
           /\ tcall = NewPair(a, b, served)
           /\ latest = [size |-> a.size, root |-> a.root, err |-> "nil"]
    /\ track = {}

SpecPair == InitPair /\ [][NextPair]_vars

\* ------------------------------------------------------------------ claims

\* C1: no two Sequence calls that return without error return the same
\* sequence number, and once seq/<n> exists no later Sequence call changes
\* its content.
C1_UniqueSeqNoOverwrite ==
    /\ [](\A n \in Indices : freshCnt[n] <= 1)
    /\ [][\A n \in Indices : SeqExists(n) => seqObj'[n] = seqObj[n]]_vars

\* C1 witness: a claim of index n was refused on the precondition, and both n
\* and n+1 have since been returned, each by one call.
C1_Witness ==
    \E n \in claimLost :
        /\ n + 1 \in Indices
        /\ freshCnt[n] = 1
        /\ freshCnt[n + 1] = 1

\* C2: in every reachable state the indices n for which seq/<n> exists form a
\* gap-free range 0..k-1, and seq/<i> exists for every i below the size of
\* the stored checkpoint.
C2_SeqGapFree ==
    /\ \A n \in Indices : SeqExists(n) => \A m \in 0..(n - 1) : SeqExists(m)
    /\ \A i \in 0..(cp.size - 1) : SeqExists(i)

\* C2 witness: a checkpoint of size >= 1 is published and a sequencer whose
\* hint came from it has claimed the index after it.
C2_Witness ==
    /\ cp.size >= 1
    /\ \E p \in Procs : pc[p] = "s_leaf" /\ seq[p] >= 1 /\ seq[p] >= cp.size
    /\ FirstFree = MaxSeq

\* C3: the size recorded in the stored checkpoint never decreases from one
\* successful WriteCheckpoint to the next.
C3_CheckpointSizeMonotonic ==
    [][(cp.gen # 0 /\ cp' # cp) => cp'.size >= cp.size]_vars

\* C3 witness: the checkpoint has been replaced at least twice and has grown,
\* and a stale writer has been turned away.
C3_Witness ==
    /\ cp.gen >= 3
    /\ cp.size >= 2
    /\ \E p \in Procs : wres[p] = "precondition" /\ wrun[p] = "integrate"

\* C4: if two clients complete ReadCheckpoint while the checkpoint is at the
\* same generation and each then calls WriteCheckpoint, at most one write
\* succeeds; the other fails on the precondition, leaves the object as it
\* found it, and the stored checkpoint is the winner's.
C4_OneWriterWins ==
    \A a \in Procs : \A b \in Procs \ {a} :
        (/\ rdGen[a] # 0
         /\ rdGen[a] = rdGen[b]
         /\ wres[a] # "none"
         /\ wres[b] # "none")
        => /\ ~(wres[a] = "ok" /\ wres[b] = "ok")
           /\ (wres[a] = "ok" =>
                  /\ wres[b] = "precondition"
                  /\ (cp.gen = wgen[a] /\ cpBy = a) \/ cpBy \notin {a, b})

\* C4 witness: both clients read generation g, one write succeeded and the
\* other was refused.
C4_Witness ==
    \E a \in Procs : \E b \in Procs \ {a} :
        /\ rdGen[a] # 0
        /\ rdGen[a] = rdGen[b]
        /\ wres[a] = "ok"
        /\ wres[b] = "precondition"
        /\ cp.gen = wgen[a]

\* leaves/<h> holds index n, as Sequence writes it.
LeafHolds(h, n) == leafObj[h] = FormatUint(n, 16)

\* C6: if leaves/<h> exists holding index n when Sequence(h, leaf) performs
\* its dedupe probe, the call returns n with ErrDupeLeaf and creates or
\* modifies no seq/ or leaves/ object, whatever the client's nextSeq is.
C6_DupeReturnsStoredIndex ==
    [][\A p \in Procs : \A e \in Entries :
          (pc[p] = "entries" /\ LeafExists(HashLeaf(e))) =>
              /\ ~(pc'[p] = "s_attrs" /\ leaf'[p] = e)
              /\ (retFor'[p] = e /\ <<retSeq[p], retErr[p], retFor[p]>>' #
                                      <<retSeq[p], retErr[p], retFor[p]>>) =>
                     /\ retErr'[p] = "ErrDupeLeaf"
                     /\ \A n \in 0..MaxSeq : LeafHolds(HashLeaf(e), n) => retSeq'[p] = n
                     /\ \E n \in Indices : LeafHolds(HashLeaf(e), n)
                     /\ seqObj' = seqObj
                     /\ leafObj' = leafObj
      ]_vars

\* C6 witness: a client whose nextSeq is still 0 got index 1 back as a dupe.
C6_Witness ==
    \E p \in Procs :
        /\ retErr[p] = "ErrDupeLeaf"
        /\ retSeq[p] = 1
        /\ nextSeq[p] = 0

\* The client has never called ReadCheckpoint and no checkpoint exists, or
\* the checkpoint is at the generation its last ReadCheckpoint recorded.
MayReplace(p) ==
    \/ ~hasRead[p] /\ cp.gen = 0
    \/ hasRead[p] /\ cp.gen = checkpointGen[p]

\* C5: WriteCheckpoint replaces the checkpoint only if the client never read
\* one and none exists, or the current generation is the one its last
\* ReadCheckpoint recorded; otherwise it fails and the checkpoint is
\* unchanged; nothing else replaces the checkpoint.
C5_WriteOnlyOnMatch ==
    [][/\ \A p \in Procs :
            (pc[p] = "write" /\ wres'[p] # "none") =>
                IF MayReplace(p)
                THEN wres'[p] = "ok" /\ cp'.gen # cp.gen /\ cp'.size = newCp[p]
                ELSE wres'[p] = "precondition" /\ cp' = cp
       /\ cp' # cp => \E p \in Procs : pc[p] = "write" /\ wres'[p] = "ok" /\ MayReplace(p)
      ]_vars

\* C5 witness: an initialise run on a log that already had a checkpoint of
\* size >= 1 was refused and the checkpoint is still there.
C5_Witness ==
    \E p \in Procs :
        /\ wrun[p] = "init"
        /\ wres[p] = "precondition"
        /\ cp.size >= 1

\* ------------------------------------------------------------------- C7
\* The numbers returned, with or without ErrDupeLeaf, by Sequence calls for h.
Returned(h) == {r[2] : r \in {x \in retFresh \cup retDupe : x[1] = h}}

\* Every number returned for h has a seq/ object holding an entry of hash h
\* inside the gap-free prefix, and is returned for no other hash.
ReturnedValid(h) ==
    \A n \in Returned(h) :
        /\ SeqExists(n)
        /\ HashLeaf(seqObj[n]) = h
        /\ n < FirstFree
        /\ \A g \in Hashes \ {h} : n \notin Returned(g)

\* C7 as stated: two Sequence calls for the same hash return the same number
\* unless those two calls raced past the dedupe probe; a call answered with
\* ErrDupeLeaf passed no probe, so it agrees with every other call, and two
\* calls that both wrote leaves/<h> differ only if they are a recorded race;
\* every returned number is valid and never reused.
C7_SameHashSameNumber ==
    \A h \in Hashes :
        /\ \A d \in retDupe : \A r \in retFresh \cup retDupe :
               (d[1] = h /\ r[1] = h) => d[2] = r[2]
        /\ \A a, b \in retFresh :
               (a[1] = h /\ b[1] = h /\ a[2] # b[2]) => {a[2], b[2]} \in raced
        /\ ReturnedValid(h)

\* C7 amended: the numbers returned for one hash differ only if they are the
\* numbers claimed by calls that raced with each other (a later call answered
\* with ErrDupeLeaf may return either racer's number); every returned number
\* is valid and never reused.
C7_SameNumberUnlessRaced ==
    \A h \in Hashes :
        /\ \A n, m \in Returned(h) : n # m => {n, m} \in raced
        /\ ReturnedValid(h)

\* Two calls raced, and a later call was answered ErrDupeLeaf with the number
\* of one racer while the other racer had returned a different number.
C7_Witness ==
    \E h \in Hashes : \E d \in retDupe : \E r \in retFresh :
        d[1] = h /\ r[1] = h /\ d[2] # r[2] /\ {d[2], r[2]} \in raced

\* ------------------------------------------------------------------- C8
\* Some Sequence call for h is past its dedupe probe and has not returned.
CallInFlight(h) ==
    \E p \in Procs : /\ pc[p] \in {"s_attrs", "s_claim", "s_leaf"}
                     /\ HashLeaf(leaf[p]) = h

\* C8 as stated: once leaves/<h> has been written with content n it is not
\* written again: its content is n in every later state.
C8_LeafWrittenOnce ==
    [][\A h \in Hashes : LeafExists(h) => leafObj'[h] = leafObj[h]]_vars

\* C8 amended: once leaves/<h> has been written, it is written again only by a
\* Sequence call for h that had passed its dedupe probe before the first write,
\* which stores the index it claimed; once no such call is in flight none
\* starts, and the content of leaves/<h> stays what it is in every later state.
C8_LeafFinalOnceQuiet ==
    [][\A h \in Hashes : LeafExists(h) =>
          /\ leafObj'[h] # leafObj[h] =>
                \E p \in Procs : /\ pc[p] = "s_leaf"
                                 /\ HashLeaf(leaf[p]) = h
                                 /\ leafObj'[h] = FormatUint(seq[p], 16)
          /\ ~CallInFlight(h) => (leafObj'[h] = leafObj[h] /\ ~CallInFlight(h)')]_vars

\* leaves/<h> was written by two calls that raced, holds the later writer's
\* index, no call for h is in flight and a sequencer is about to offer entries.
C8_Witness ==
    \E h \in Hashes :
        /\ {0, 1} \in raced
        /\ {0, 1} \subseteq {i \in Indices : SeqExists(i) /\ HashLeaf(seqObj[i]) = h}
        /\ LeafExists(h)
        /\ ~CallInFlight(h)
        /\ \E p \in Procs : pc[p] = "entries"

\* ------------------------------------------------------------------- C9
\* The indices whose seq/ object holds an entry of hash h.
IndicesOf(h) == {i \in Indices : SeqExists(i) /\ HashLeaf(seqObj[i]) = h}

\* C9 as stated: the content of leaves/<h> is the smallest index whose seq/
\* object holds an entry of hash h.
C9_LeafHoldsSmallest ==
    \A h \in Hashes : LeafExists(h) =>
        \E i \in IndicesOf(h) : LeafHolds(h, i) /\ \A j \in IndicesOf(h) : i <= j

\* The names under which the call that claimed index j is recorded.
TokensOf(j) == {j} \cup {CallOf(p) : p \in {q \in Procs : pc[q] = "s_leaf" /\ seq[q] = j}}

\* The call that claimed j raced with the one that claimed i, or stopped
\* between writing seq/<j> and leaves/<h>.
RacedOrStopped(h, i, j) ==
    \/ <<j, h>> \in orphans
    \/ \E t \in TokensOf(j) : {i, t} \in raced

\* C9 amended: the content of leaves/<h> is an index i whose seq/ object holds
\* an entry of hash h; i is the smallest such index unless the call that
\* claimed a smaller one raced with the call that claimed i or stopped before
\* writing leaves/<h>.
C9_LeafHoldsClaimedIndex ==
    \A h \in Hashes : LeafExists(h) =>
        \E i \in IndicesOf(h) :
            /\ LeafHolds(h, i)
            /\ \A j \in IndicesOf(h) : j < i => RacedOrStopped(h, i, j)

\* leaves/<h> holds 1 while seq/0 holds an entry of hash h too: the calls that
\* claimed 0 and 1 raced and the one that claimed 1 wrote leaves/<h> last.
C9_Witness ==
    \E h \in Hashes :
        /\ LeafHolds(h, 1)
        /\ 0 \in IndicesOf(h)
        /\ {0, 1} \in raced
        /\ ~CallInFlight(h)

\* ------------------------------------------------------------------ C10
\* The seq/ objects that exist are the indices 0 .. FirstFree-1.
GapFree == \A n \in Indices : SeqExists(n) => n < FirstFree

\* An integration whose scan began when seq/<n> existed has n in its tree.
IntegrationIncludes(n) ==
    \A p \in Procs :
        (pc[p] = "write" /\ run[p] = "integrate" /\ n < scanFree[p]) => n < newCp[p]

\* C10 as stated: after a sequencer stopped between writing seq/<n> and
\* leaves/<h>, the seq/ range is gap-free, an integration run afterwards
\* includes n, and the next Sequence call for h is not answered ErrDupeLeaf
\* but is assigned a new index m > n.
C10_StoppedCallTolerated ==
    \A o \in orphans :
        /\ GapFree
        /\ IntegrationIncludes(o[1])
        /\ \A a \in afterOrph :
               (a[1] = o[1] /\ a[2] = o[2]) => (a[3] = "nil" /\ a[4] > o[1])

\* C10 amended: the seq/ range is gap-free and an integration run afterwards
\* includes n; the next Sequence call for h is assigned a new index m > n if
\* leaves/<h> is still absent at its dedupe probe, and otherwise (a call for h
\* that was in flight when the sequencer stopped has written leaves/<h>) it is
\* answered ErrDupeLeaf with the index m # n which that call claimed; either
\* way seq/<n> and seq/<m> both hold an entry of hash h.
C10_StoppedCallBestEffort ==
    \A o \in orphans :
        /\ GapFree
        /\ IntegrationIncludes(o[1])
        /\ \A a \in afterOrph :
               (a[1] = o[1] /\ a[2] = o[2]) =>
                   /\ a[3] = "nil" => a[4] > o[1]
                   /\ a[3] = "ErrDupeLeaf" => a[4] # o[1]
                   /\ {o[1], a[4]} \subseteq IndicesOf(o[2])

\* A sequencer stopped after writing seq/0, the next call for the same hash
\* was assigned 1, and an integration begun afterwards is about to publish a
\* checkpoint covering both.
C10_Witness ==
    \E h \in Hashes :
        /\ <<0, h>> \in orphans
        /\ <<0, h, "nil", 1>> \in afterOrph
        /\ \E p \in Procs : /\ pc[p] = "write" /\ run[p] = "integrate"
                            /\ scanFree[p] = 2 /\ newCp[p] = 2

\* ------------------------------------------------------------------ C11
\* The tile-leaf hashes 0 .. n-1 of level-0 tile `index`, from the seq/ objects.
LeafHashes(index, n) ==
    [i \in 1..n |-> HashLeaf(seqObj[index * TileWidth + i - 1])]

\* The level-0 tile `index` as a tree of `size` leaves needs it is readable
\* with GetTile and holds exactly the tile leaves of that tree.
TileCovers(index, size) ==
    LET t == GetTile(0, index, size) IN
    /\ TileExists(GetTilePath(0, index, size))
    /\ t.NumLeaves = PartialTileSize(0, index, size)
    /\ t.Nodes = LeafHashes(index, t.NumLeaves)

\* C11: whenever the stored checkpoint has size S, every tile needed to cover
\* S leaves is readable with GetTile(level, index, S) and holds exactly the
\* right number of tile leaves; a checkpoint is written only when every tile
\* of its integration is already stored.
C11_TilesCoverCheckpoint ==
    /\ [](cp.size > 0 => \A index \in 0..LastTileIndex(cp.size) : TileCovers(index, cp.size))
    /\ [][(cp' # cp /\ cp'.size > 0) =>
            \A index \in 0..LastTileIndex(cp'.size) :
                /\ TileExists(GetTilePath(0, index, cp'.size))
                /\ UnmarshalText(tileObj[GetTilePath(0, index, cp'.size)]).NumLeaves
                       = PartialTileSize(0, index, cp'.size)]_vars

\* ------------------------------------------------------------------ C12
\* The path and the bytes of the StoreTile call the step made.
CallPath(c) == StoreTilePath(c.level, c.index, c.tile)

StoreTileStep == tcall'.op = "StoreTile" /\ ~StoreTileRejects(tcall'.tile)

\* C12: once an object exists at a tile path no later StoreTile changes its
\* bytes; a StoreTile of identical content returns success without writing,
\* one of different content returns an error and leaves the object unchanged
\* (an error of the transport that StoreTile hands on is no success either
\* way).
C12_TileWrittenOnce ==
    [][/\ \A path \in DOMAIN tileObj :
            TileExists(path)' /\ tileObj'[path] = tileObj[path]
       /\ (StoreTileStep /\ TileExists(CallPath(tcall'))) =>
            /\ tileObj' = tileObj
            /\ IF tileObj[CallPath(tcall')] = MarshalText(tcall'.tile)
               THEN tcall'.err \in {"nil", "ErrClose"}
               ELSE tcall'.err \in {"ErrContentChanged", "ErrClose"}]_vars

\* ------------------------------------------------------------------ C13
\* C13: StoreTile with NumLeaves 0 or above 256 returns an error and writes
\* nothing.
C13_BadTileSizeRejected ==
    [][(tcall'.op = "StoreTile" /\ tcall'.tile.NumLeaves \notin 1..TileWidth) =>
            (tcall'.err # "nil" /\ tileObj' = tileObj)]_vars

\* C13 witness: a tile of 257 leaves was refused while the store held tiles.
C13_Witness ==
    /\ tcall.op = "StoreTile"
    /\ tcall.tile.NumLeaves = TileWidth + 1
    /\ tcall.err = "ErrTileSize"
    /\ DOMAIN tileObj # {}

\* ------------------------------------------------------------------ C14
\* C14: GetTile returns the full tile at the unsuffixed path when the partial
\* tile for logSize is absent but the full tile exists, and NotExist only when
\* neither exists.
C14_GetTileFallsBackToFull ==
    tcall.op = "GetTile" =>
        LET partial == GetTilePath(tcall.level, tcall.index, tcall.logSize)
            full == TilePath(tcall.level, tcall.index, 0) IN
        /\ (~TileExists(partial) /\ TileExists(full)) =>
               tcall.tile = UnmarshalText(tileObj[full])
        /\ tcall.tile = NotExist => (~TileExists(partial) /\ ~TileExists(full))

\* ------------------------------------------------------------------ C15
\* The tree sizes at which tile (level, index) has exactly n tile leaves.
SizesWith(level, index, n) ==
    {logSize \in LogSizes : PartialTileSize(level, index, logSize) = n}

\* C15: for 1 <= NumLeaves <= 256 StoreTile writes a 256-leaf tile to the
\* unsuffixed path and a tile of 1..255 leaves to the path suffixed with its
\* count, tiles of different counts never share a path, and after a successful
\* StoreTile, GetTile(level, index, logSize) returns an equal tile for every
\* logSize at which the tile has exactly NumLeaves tile leaves.
C15_StoreThenGetRoundTrip ==
    (tcall.op = "StoreTile" /\ tcall.tile.NumLeaves \in 1..TileWidth /\ tcall.err = "nil") =>
           /\ CallPath(tcall) = <<tcall.level, tcall.index,
                                  IF tcall.tile.NumLeaves = TileWidth THEN 0
                                  ELSE tcall.tile.NumLeaves>>
           /\ \A m \in 1..TileWidth :
                  m # tcall.tile.NumLeaves =>
                      StoreTilePath(tcall.level, tcall.index, [NumLeaves |-> m]) # CallPath(tcall)
           /\ TileExists(CallPath(tcall))
           /\ tileObj[CallPath(tcall)] = MarshalText(tcall.tile)
           /\ \A logSize \in SizesWith(tcall.level, tcall.index, tcall.tile.NumLeaves) :
                  GetTile(tcall.level, tcall.index, logSize) = tcall.tile

\* ------------------------------------------------------------------ C16
\* C16: Integrate called with the current checkpoint size S on a store whose
\* contiguous sequenced prefix is [0, M) with M > S produces a checkpoint of
\* size exactly M, and after that checkpoint is written the state tracker's
\* next Update that fetches it adopts it (size M, without error).
C16_IntegrateMissesNoEntry ==
    [][/\ \A p \in Procs :
            (IntegrateDone(p) /\ begin[p] < FirstFree) =>
                (pc'[p] = "store" /\ newCp'[p] = FirstFree)
       /\ \A p \in Procs :
            (WriteCheckpoint(p) /\ run[p] = "integrate" /\ cp' # cp) =>
                (cp'.size = newCp[p] /\ cp'.size > cp.size)
       /\ (TrackerUpdate /\ latest'.err \notin {"ErrFetch", "ErrSignature"}) =>
            (latest'.size = cp.size /\ latest'.root = cp.root /\ latest'.err = "nil")]_vars

\* ------------------------------------------------------------------ C17
\* C17: Integrate returns no checkpoint if and only if seq/<current_size> does
\* not exist; in that case no tile is written and the entry point leaves the
\* stored checkpoint unchanged.
C17_NothingToIntegrate ==
    [][\A p \in Procs :
          /\ IntegrateDone(p) =>
                /\ (pc'[p] = "nil_cp") <=> ~SeqExists(begin[p])
                /\ pc'[p] = "nil_cp" => (tileObj' = tileObj /\ cp' = cp)
          /\ (pc[p] = "nil_cp" /\ pc'[p] # "nil_cp") =>
                (tileObj' = tileObj /\ cp' = cp /\ pc'[p] = "idle")]_vars

\* C17 witness: log.Integrate, called with size 1 while seq/1 was absent, has
\* returned no checkpoint; the checkpoint of size 1 and its tile are all
\* there is.
C17_Witness ==
    /\ \E p \in Procs : pc[p] = "nil_cp" /\ run[p] = "integrate" /\ begin[p] = 1
    /\ cp.size = 1 /\ cp.gen = 2 /\ ~SeqExists(1)
    /\ DOMAIN tileObj = {TilePath(0, 0, 1)}

\* ------------------------------------------------------------------ C20
\* The tile and the checkpoint an integrate run is about to store.
RunTile(p) == IntegrateTile(newCp[p], nodes[p])

RunCheckpoint(p) == [size |-> newCp[p], root |-> RootHash(nodes[p])]

SameInputs(p, q) ==
    /\ run[p] = "integrate" /\ run[q] = "integrate"
    /\ pc[p] \in {"store", "write"} /\ pc[q] \in {"store", "write"}
    /\ begin[p] = begin[q] /\ end[p] = end[q]

\* C20: running Integrate twice from the same current size S on the same seq/
\* contents yields the same tile objects with byte-identical content and the
\* same checkpoint size and root hash; a run whose tile write reported success
\* leaves the tile stored with exactly those bytes, the write being a no-op
\* when the tile already exists.
C20_IntegrateIdempotent ==
    /\ [](\A p, q \in Procs :
            SameInputs(p, q) =>
                /\ MarshalText(RunTile(p)) = MarshalText(RunTile(q))
                /\ StoreTilePath(0, LastTileIndex(newCp[p]), RunTile(p))
                       = StoreTilePath(0, LastTileIndex(newCp[q]), RunTile(q))
                /\ RunCheckpoint(p) = RunCheckpoint(q))
    /\ [][\A p \in Procs :
            (StoreTile(p) /\ pc'[p] = "write") =>
                LET path == StoreTilePath(0, LastTileIndex(newCp[p]), RunTile(p)) IN
                /\ path \in DOMAIN tileObj'
                /\ tileObj'[path] = MarshalText(RunTile(p))
                /\ TileExists(path) => tileObj' = tileObj]_vars

\* ------------------------------------------------------------------ C18
\* The indices a scan has called f on are begin, begin+1, ... with none
\* skipped; all exist and f failed on none but possibly the last; a scan that
\* has returned stopped at the first absent object or the first error of f.
ScanInOrder(s) ==
    /\ \A i \in 1..Len(s.called) :
          /\ s.called[i] = scan.begin + i - 1
          /\ SeqExists(s.called[i])
          /\ i < Len(s.called) => s.called[i] # scan.failAt
    /\ s.done =>
          IF s.err = "nil"
          THEN /\ ~SeqExists(scan.begin + Len(s.called))
               /\ \A i \in 1..Len(s.called) : s.called[i] # scan.failAt
          ELSE /\ Len(s.called) > 0
               /\ s.called[Len(s.called)] = scan.failAt

\* C18: ScanSequenced(begin, f) invokes f on begin, begin+1, ... in strictly
\* increasing order with no index skipped, stops at the first index whose seq
\* object is absent or at the first error returned by f, and never invokes f
\* for an index beyond that point even if later seq objects exist.
C18_ScanContiguous ==
    scan # NoScan => (ScanInOrder(scan.gcs) /\ ScanInOrder(scan.mem))

\* C18 witness: both scans from 0 returned after f failed on seq/0, and f was
\* not called on seq/1, which exists.
C18_Witness ==
    /\ scan # NoScan
    /\ scan.begin = 0 /\ scan.failAt = 0
    /\ scan.gcs.done /\ scan.mem.done
    /\ scan.gcs.called = <<0>> /\ scan.mem.called = <<0>>
    /\ SeqExists(1)

\* ------------------------------------------------------------------ C19
\* C19: for the same store contents, the same begin and the same callback,
\* Client.ScanSequenced and MemStorage.ScanSequenced return the same value,
\* the number of sequenced entries scanned (0 when seq/<begin> does not
\* exist), for every begin including begin > 0.
C19_ScansReturnTheSame ==
    (scan # NoScan /\ scan.gcs.done /\ scan.mem.done) =>
        /\ scan.mem.ret = scan.gcs.ret
        /\ scan.gcs.err = scan.mem.err
        /\ scan.gcs.ret = scan.gcs.at - scan.begin
        /\ ~SeqExists(scan.begin) => (scan.gcs.ret = 0 /\ scan.mem.ret = 0)

\* ---------------------------------------------------------------- C28
\* C28: StoreTile returns success only if, on return, the object at the tile's
\* path exists with exactly the bytes of the serialised tile; and every failure
\* of the conditional write, other than a precondition failure on an object of
\* identical content, is returned as an error.
C28_StoreTileFailuresReturned ==
    [][tcall'.op = "StoreTile" =>
        LET path == CallPath(tcall')
            data == MarshalText(tcall'.tile)
            closed == CloseError(path, tcall'.fault) IN
        /\ tcall'.err = "nil" =>
               (path \in DOMAIN tileObj' /\ tileObj'[path] = data)
        /\ (closed # "nil" /\ ~(closed = "PreconditionFailed" /\ tileObj[path] = data)) =>
               tcall'.err # "nil"]_vars

C30_HintNeverAhead ==
    /\ [](\A p \in Procs : run[p] = "sequence" => nextSeq[p] <= FirstFree)
    /\ [][\A p \in Procs :
            (run[p] = "sequence" /\ run'[p] = "sequence") => nextSeq'[p] >= nextSeq[p]]_vars

\* C30 witness: a sequencer that started from the checkpoint of size 0 found
\* seq/0 in use and moved its hint to 1, below the first free index 2.
C30_Witness ==
    \E p \in Procs :
        /\ run[p] = "sequence" /\ pc[p] = "s_attrs"
        /\ cp.size = 0
        /\ nextSeq[p] = 1
        /\ FirstFree = 2

\* ---------------------------------------------------------------- C26
\* C26: when otherCacheControl is configured, every seq/ object, leaves/
\* object and tile object the client writes carries that Cache-Control value,
\* and when checkpointCacheControl is configured the checkpoint it writes
\* carries that value.
C26_ObjectsCarryCacheControl ==
    [][\A p \in Procs :
        /\ opts[p].otherCacheControl # "" =>
              /\ (SeqClaim(p) /\ seqObj' # seqObj) =>
                     attrs'.seq[seq[p]] = opts[p].otherCacheControl
              /\ SeqLeaf(p) =>
                     attrs'.leaves[HashLeaf(leaf[p])] = opts[p].otherCacheControl
              /\ (StoreTile(p) /\ tileObj' # tileObj) =>
                     attrs'.tile[StoreTilePath(0, LastTileIndex(newCp[p]), RunTile(p))]
                         = opts[p].otherCacheControl
        /\ opts[p].checkpointCacheControl # "" =>
              ((WriteCheckpoint(p) /\ cp' # cp) =>
                     attrs'.checkpoint = opts[p].checkpointCacheControl)]_vars

\* ---------------------------------------------------------------- C23
\* The bucket holds no seq/, leaves/ or tile object.
NoLogObjects ==
    /\ \A n \in Indices : ~SeqExists(n)
    /\ \A h \in Hashes : ~LeafExists(h)
    /\ DOMAIN tileObj = {}

\* C23: initialising a log on an empty store creates a checkpoint with the
\* configured origin, size 0 and the root hash of the empty tree, and creates
\* no seq/, leaves/ or tile object.
C23_InitialiseWritesEmptyCheckpoint ==
    /\ [](~CheckpointExists => NoLogObjects)
    /\ [][\A p \in Procs :
            (WriteCheckpoint(p) /\ run[p] = "init" /\ ~CheckpointExists) =>
                /\ cp'.gen = 1
                /\ cp'.origin = LogOrigin
                /\ cp'.size = 0
                /\ cp'.root = RootHash(<<>>)
                /\ seqObj' = seqObj /\ leafObj' = leafObj /\ tileObj' = tileObj
                /\ NoLogObjects']_vars

\* C23 witness: the initialise request has run on the empty bucket; the
\* checkpoint of the empty tree is the only object.
C23_Witness ==
    /\ cp = [gen |-> 1, origin |-> LogOrigin, size |-> 0, root |-> RootHash(<<>>)]
    /\ NoLogObjects
    /\ \A p \in Procs : pc[p] = "idle"

C25_SameSizeSameRoot ==
    (tcall.op = "pair" /\ tcall.cps[1].size = tcall.cps[2].size) =>
        LET want == IF tcall.cps[1].root = tcall.cps[2].root THEN "nil"
                    ELSE "ErrInconsistency" IN
        /\ tcall.err # NoPair => tcall.err = want
        /\ tcall.updated => latest.err = want

\* Both were asked about two checkpoints of MaxSeq leaves with different
\* roots, and both reported the inconsistency.
C25_Witness ==
    /\ tcall.op = "pair"
    /\ tcall.cps[1].size = MaxSeq
    /\ tcall.cps[2].size = MaxSeq
    /\ tcall.cps[1].root # tcall.cps[2].root
    /\ tcall.err = "ErrInconsistency"
    /\ tcall.updated
    /\ latest.err = "ErrInconsistency"

C21_PublishedCheckpointsConsistent ==
    /\ [](CheckpointExists =>
            /\ latest.size <= cp.size
            /\ Consistent(latest, cp)
            /\ latest.size < cp.size =>
                   /\ ServedTile(cp.size) # NotExist
                   /\ VerifyConsistency(latest, cp, ServedTile(cp.size)))
    /\ [][(TrackerUpdate /\ latest'.err \notin {"ErrFetch", "ErrSignature"}) =>
              /\ latest'.err = "nil"
              /\ latest'.size = cp.size
              /\ latest'.root = cp.root]_vars

\* client.LookupIndex: the index read from leaves/<h>.
LookupIndex(h) == ParseUint(leafObj[h], 16)

\* The inclusion proof of the leaf hash h at idx in the tree of `size` leaves
\* with the root `root`, built from the leaf hashes the log serves, verifies.
VerifyInclusion(idx, size, h, root, served) ==
    /\ idx < size
    /\ Len(served.Nodes) = size
    /\ served.Nodes[idx + 1] = h
    /\ RootHash(served.Nodes) = root

\* C22: for the published checkpoint of size S and every sequenced leaf with
\* a leaves/<h> object, the index found there is below S once every sequenced
\* entry is integrated, and for an index below S the inclusion proof built
\* from the stored tiles verifies against the checkpoint's root hash and the
\* leaf hash.
C22_InclusionFromStoredTiles ==
    CheckpointExists =>
        \A h \in Hashes :
            LeafExists(h) =>
                /\ FirstFree = cp.size => LookupIndex(h) < cp.size
                /\ LookupIndex(h) < cp.size =>
                       /\ ServedTile(cp.size) # NotExist
                       /\ VerifyInclusion(LookupIndex(h), cp.size, h, cp.root,
                                          ServedTile(cp.size))

\* ---------------------------------------------------------------- C32
\* C32: if a client's WriteCheckpoint succeeds after it called ReadCheckpoint,
\* the content that ReadCheckpoint returned was the content of the checkpoint
\* right before the write: it was read at the generation the write replaced,
\* which is also the generation the lookup recorded, and an Integrate run
\* started from the size stored there.
C32_WriteImpliesFreshRead ==
    [][\A p \in Procs :
          (pc[p] = "write" /\ hasRead[p] /\ wres'[p] = "ok") =>
              /\ rdGen[p] = cp.gen
              /\ checkpointGen[p] = cp.gen
              /\ run[p] = "integrate" => begin[p] = cp.size]_vars

\* One client's write succeeded after its read, and another client, whose
\* content read came after that write while its generation lookup came before
\* it, was refused although nothing replaced the checkpoint after its read.
C32_Witness ==
    \E p \in Procs : \E q \in Procs \ {p} :
        /\ wres[p] = "ok" /\ wrun[p] = "integrate" /\ rdGen[p] # 0
        /\ wres[q] = "precondition" /\ wrun[q] = "integrate"
        /\ rdGen[q] = wgen[p]
        /\ wgen[q] = rdGen[q]

\* ------------------------------------- the checkpoint calls by themselves
\* Raw checkpoints a caller hands to WriteCheckpoint: trees of one entry.
NewCheckpoints ==
    {[size |-> n, root |-> RootHash([i \in 1..n |-> HashLeaf(1)])] : n \in 0..MaxSeq}

\* Client.ReadCheckpoint, obj.Attrs: the generation is stashed, or the call
\* returns the error and nothing changes.
CallReadAttrs(p) ==
    /\ pc[p] = "idle"
    /\ IF CheckpointExists
       THEN /\ checkpointGen' = [checkpointGen EXCEPT ![p] = cp.gen]
            /\ pc' = [pc EXCEPT ![p] = "rc_data"]
            /\ hasRead' = [hasRead EXCEPT ![p] = TRUE]
            /\ wres' = [wres EXCEPT ![p] = "none"]
       ELSE UNCHANGED <<checkpointGen, pc, hasRead, wres>>
    /\ UNCHANGED <<run, nextSeq, opts, leaf, seq, begin, end, newCp, nodes>>
    /\ UNCHANGED <<store, rdGen, wgen, wrun, cpBy, seqHist, lastRet, scanFree, tcall,
                   reader, track>>

\* Client.ReadCheckpoint, obj.NewReader and io.ReadAll.
CallReadData(p) ==
    /\ pc[p] = "rc_data"
    /\ rdGen' = [rdGen EXCEPT ![p] = cp.gen]
    /\ pc' = [pc EXCEPT ![p] = "idle"]
    /\ UNCHANGED <<run, nextSeq, checkpointGen, opts, leaf, seq, begin, end, newCp, nodes>>
    /\ UNCHANGED <<store, hasRead, wres, wgen, wrun, cpBy, seqHist, lastRet, scanFree,
                   tcall, reader, track>>

\* Client.WriteCheckpoint(newCPRaw) between two calls of the same Client.
CallWriteCheckpoint(p, c) ==
    /\ pc[p] = "idle"
    /\ cp.gen < MaxGen
    /\ IF WriteCondition(p)
       THEN /\ cp' = [gen |-> cp.gen + 1, origin |-> LogOrigin, size |-> c.size,
                      root |-> c.root]
            /\ attrs' = [attrs EXCEPT !.checkpoint = CheckpointCacheControl(opts[p])]
            /\ wres' = [wres EXCEPT ![p] = "ok"]
            /\ cpBy' = p
       ELSE /\ wres' = [wres EXCEPT ![p] = "precondition"]
            /\ UNCHANGED <<cp, attrs, cpBy>>
    /\ wgen' = [wgen EXCEPT ![p] = cp'.gen]
    /\ UNCHANGED <<seqObj, leafObj, tileObj, client, hasRead, rdGen, wrun, seqHist,
                   lastRet, scanFree, tcall, reader, track>>

\* Long-lived Clients that read and write the checkpoint in any order.
NextCkpt ==
    \E p \in Procs :
        \/ CallReadAttrs(p)
        \/ CallReadData(p)
        \/ \E c \in NewCheckpoints : CallWriteCheckpoint(p, c)

InitCkpt == InitStore /\ track = {"cp"}

SpecCkpt == InitCkpt /\ [][NextCkpt]_vars

\* ---------------------------------------------------------------- C31
\* C31: the generation a Client has stashed changes only in ReadCheckpoint,
\* and after the Client's own successful WriteCheckpoint its next
\* WriteCheckpoint with no ReadCheckpoint in between fails on the
\* precondition and leaves the stored checkpoint as it was.
C31_OwnWriteNeedsReRead ==
    [][\A p \in Procs :
          /\ checkpointGen'[p] # checkpointGen[p] => CallReadAttrs(p)
          /\ (wres[p] = "ok" /\ \E c \in NewCheckpoints : CallWriteCheckpoint(p, c)) =>
                 (wres'[p] = "precondition" /\ cp' = cp)]_vars

\* A Client that read the checkpoint wrote it, wrote again without reading
\* and was refused; nobody else has written, so the refusal is its own doing.
C31_Witness ==
    \E p \in Procs :
        /\ hasRead[p]
        /\ wres[p] = "precondition"
        /\ cpBy = p
        /\ cp.gen = checkpointGen[p] + 1
        /\ wgen[p] = cp.gen

\* ---------------------------------------------------------------- C33
\* C33: in every reachable state, whenever leaves/<h> exists its content is
\* the hex form of an index n, seq/<n> exists and the entry stored there has
\* leaf hash h.
C33_LeafPointsAtItsEntry ==
    \A h \in Hashes :
        LeafExists(h) =>
            /\ ParseUintOK(leafObj[h], 16)
            /\ SeqExists(ParseUint(leafObj[h], 16))
            /\ HashLeaf(seqObj[ParseUint(leafObj[h], 16)]) = h

\* Both entries are sequenced and indexed, the second one at index 1, while an
\* instance that has claimed nothing yet is inside Sequence.
C33_Witness ==
    /\ \A h \in Hashes : LeafExists(h)
    /\ \E h \in Hashes : ParseUint(leafObj[h], 16) = 1
    /\ \E p \in Procs : pc[p] = "s_attrs"

\* ---------------------------------------------------------------- C34
\* Leaf hashes of seq/0 .. seq/<size - 1>.
SequencedHashes(size) == [i \in 1..size |-> HashLeaf(seqObj[i - 1])]

\* C34: whatever tiles earlier integrations left behind without publishing a
\* checkpoint, and whatever was sequenced since, an integration about to
\* store its tile does not get a tile-content-divergence error, and the
\* checkpoint an integration publishes has the size it scanned to and the
\* root of the entries sequenced below that size.
C34_RerunAfterAbort ==
    /\ [](\A p \in Procs : pc[p] = "store" =>
             \A fault \in CloseFaults :
                 StoreTileResult(0, LastTileIndex(newCp[p]),
                                 IntegrateTile(newCp[p], nodes[p]), fault)
                     # "ErrContentChanged")
    /\ [][\A p \in Procs :
             (WriteCheckpoint(p) /\ run[p] = "integrate" /\ cp' # cp) =>
                 /\ cp'.size = newCp[p]
                 /\ cp'.size <= FirstFree
                 /\ cp'.root = RootHash(SequencedHashes(cp'.size))]_vars

\* The checkpoint went from size 0 straight to size 2, and the tile of the
\* tree of one leaf is in the bucket: an integration stored it and published
\* nothing, a second entry was sequenced, and a later integration from size 0
\* stored the tile of two leaves and published the checkpoint.
C34_Witness ==
    /\ cp.gen = 2
    /\ cp.size = 2
    /\ cp.root = RootHash(SequencedHashes(2))
    /\ TileExists(GetTilePath(0, 0, 1))
    /\ TileExists(GetTilePath(0, 0, 2))

\* ------------------------------------------------ the Sequence entry point
\* The same program, recording the results of each sequence run.
InitRun == InitStore /\ track = {"run"}
SpecRun == InitRun /\ [][Next]_vars

\* A Client.Sequence call of instance p that finds leaves/<h> with a
\* parseable index: it returns ErrDupeLeaf.
DupeStep(p) ==
    \E e \in Entries :
        /\ SeqProbe(p, e)
        /\ DupeProbe(HashLeaf(e))
        /\ ParseUintOK(leafObj[HashLeaf(e)], 16)

\* C35: in the Sequence entry point an ErrDupeLeaf from Client.Sequence does
\* not end the request: the result is noted, nothing is written, and the loop
\* over the listed entries goes on; any other error ends the request at once,
\* and no further entry is sequenced by that request.
C35_DupeContinuesOtherErrorAborts ==
    [][\A p \in Procs :
          /\ DupeStep(p) =>
                /\ pc'[p] = "entries" /\ run'[p] = "sequence"
                /\ store' = store
                /\ runLog'[p] # runLog[p] =>
                      runLog'[p] = Append(runLog[p], "ErrDupeLeaf")
          /\ (Stop(p) /\ run[p] = "sequence") =>
                /\ pc'[p] = "idle" /\ run'[p] = "none"
                /\ runLog'[p] = <<>>
          /\ pc[p] = "idle" => runLog'[p] = <<>>]_vars

\* A request got ErrDupeLeaf for one entry and sequenced the next one.
C35_Witness ==
    \E p \in Procs :
        /\ runLog[p] = <<"ErrDupeLeaf", "nil">>
        /\ run[p] = "sequence" /\ pc[p] = "entries"
        /\ \A e \in Entries : LeafExists(HashLeaf(e))

\* ------------------------------------------- termination of Client.Sequence
\* The same program with every instance that is inside the probe/claim loop
\* of Client.Sequence going on to its next storage call: the goroutine that
\* serves the request keeps running and every storage call returns.
LoopFairness ==
    \A p \in Procs :
        /\ WF_vars(SeqAttrs(p))
        /\ WF_vars(SeqClaim(p))
        /\ WF_vars(SeqLeaf(p))

SpecLive == Init /\ [][Next]_vars /\ LoopFairness

\* Instance p is inside the loop of Client.Sequence.
InLoop(p) == pc[p] \in {"s_attrs", "s_claim", "s_leaf"}

\* The loop of instance p ran past the last index of the bucket modelled.
PastIndices(p) == pc[p] = "s_attrs" /\ nextSeq[p] = MaxSeq

\* C36: every iteration of the probe/claim loop of Client.Sequence either
\* goes on towards the return (probe -> claim -> leaf write -> return) or
\* adds one to nextSeq, and then the index it leaves behind is in use; and
\* every call that is inside the loop eventually returns (the bucket holds
\* finitely many seq/ objects: at most MaxSeq).
C36_SequenceReturns ==
    /\ [][\A p \in Procs :
             (SeqAttrs(p) \/ SeqClaim(p) \/ SeqLeaf(p)) =>
                 \/ pc[p] = "s_attrs" /\ pc'[p] = "s_claim" /\ nextSeq'[p] = nextSeq[p]
                 \/ pc[p] = "s_claim" /\ pc'[p] = "s_leaf" /\ nextSeq'[p] = nextSeq[p]
                 \/ pc[p] = "s_leaf" /\ ~InLoop(p)'
                 \/ /\ pc'[p] = "s_attrs"
                    /\ nextSeq'[p] = nextSeq[p] + 1
                    /\ seqObj'[nextSeq[p]] # NoEntry]_vars
    /\ \A p \in Procs : InLoop(p) ~> (~InLoop(p) \/ PastIndices(p))

\* A call that started at index 0 went past it, because it was in use, and
\* claimed index 1.
C36_Witness ==
    \E p \in Procs :
        /\ pc[p] = "s_leaf" /\ run[p] = "sequence"
        /\ seq[p] = 1 /\ nextSeq[p] = 1
        /\ cp.size = 0
        /\ seqObj[0] # NoEntry /\ seqObj[1] = leaf[p]

\* ------------------------------------------------ MemStorage, concurrently
\* Callers (goroutines) share one MemStorage. GetTile and the Fetcher only
\* read the map under the lock and are left out. An assignment to the map
\* and a lookup in it are not atomic: each has a beginning and an end.
MsOthers ==
    UNCHANGED <<store, client, cpHist, seqHist, lastRet, scanFree, tcall, latest, scan, track,
                pool, lr, thr>>

MsSet(c, f) == [ms EXCEPT !.g[c] = f]

\* A caller enters Sequence(leafhash of e, e), StoreTile or WriteCheckpoint:
\* ms.Lock() is next.
MsCall(c, op, e) ==
    /\ ~ms.crashed
    /\ ms.g[c].pc = "idle"
    /\ ms' = MsSet(c, [ms.g[c] EXCEPT !.pc = "lock", !.op = op,
                                       !.key = IF op = "Sequence" THEN <<"leaves", HashLeaf(e)>>
                                               ELSE IF op = "StoreTile" THEN <<"tile">>
                                               ELSE <<"checkpoint">>])
    /\ MsOthers

\* ms.Lock() returns; Sequence takes seq := ms.nextSeq; ms.nextSeq++.
MsLock(c) ==
    /\ ~ms.crashed
    /\ ms.g[c].pc = "lock"
    /\ ms.lock = 0
    /\ ms.g[c].op = "Sequence" => ms.nextSeq < MaxSeq
    /\ ms' = [ms EXCEPT !.lock = c,
                        !.nextSeq = IF ms.g[c].op = "Sequence" THEN @ + 1 ELSE @,
                        !.g[c].pc = "locked",
                        !.g[c].i = ms.nextSeq,
                        !.g[c].left = IF ms.g[c].op = "Sequence" THEN 2 ELSE 1]
    /\ MsOthers

\* The path the next map assignment of caller c writes: Sequence writes
\* seq/<seq> and then leaves/<leafhash>.
MsPath(c) ==
    IF ms.g[c].op = "Sequence" /\ ms.g[c].left = 2 THEN <<"seq", ms.g[c].i>> ELSE ms.g[c].key

\* ms.fs[path] = ... begins; lookups under way overlap it.
MsWriteBegin(c) ==
    /\ ~ms.crashed
    /\ ms.g[c].pc = "locked" /\ ms.g[c].left > 0
    /\ ms' = [ms EXCEPT !.g = [d \in Procs |->
                  IF d = c THEN [ms.g[d] EXCEPT !.pc = "writing"]
                  ELSE IF ms.g[d].pc = "reading" THEN [ms.g[d] EXCEPT !.dirty = TRUE]
                  ELSE ms.g[d]]]
    /\ MsOthers

\* ms.fs[path] = ... is done.
MsWriteEnd(c) ==
    /\ ~ms.crashed
    /\ ms.g[c].pc = "writing"
    /\ ms' = [ms EXCEPT !.fs = @ \cup {MsPath(c)},
                        !.g[c].pc = "locked",
                        !.g[c].left = @ - 1]
    /\ MsOthers

\* The deferred ms.Unlock() and the return.
MsUnlock(c) ==
    /\ ~ms.crashed
    /\ ms.g[c].pc = "locked" /\ ms.g[c].left = 0
    /\ ms' = [ms EXCEPT !.lock = 0,
                        !.g[c] = [pc |-> "idle", op |-> "none", left |-> 0, i |-> 0,
                                  key |-> <<>>, dirty |-> FALSE]]
    /\ MsOthers

\* A caller enters ScanSequenced(begin, f): no lock is taken, i := begin.
MsScanCall(c, b) ==
    /\ ~ms.crashed
    /\ ms.g[c].pc = "idle"
    /\ ms' = MsSet(c, [ms.g[c] EXCEPT !.pc = "scan", !.op = "ScanSequenced", !.i = b])
    /\ MsOthers

\* e, ok := ms.fs[seq/<i>] begins; an assignment under way overlaps it.
MsReadBegin(c) ==
    /\ ~ms.crashed
    /\ ms.g[c].pc = "scan"
    /\ ms' = MsSet(c, [ms.g[c] EXCEPT !.pc = "reading",
                                       !.dirty = \E d \in Procs : ms.g[d].pc = "writing"])
    /\ MsOthers

\* The lookup is done. One that overlapped an assignment has no defined
\* result: the runtime may stop the program ("concurrent map read and map
\* write"), or the lookup yields either answer. Otherwise ok says whether
\* the path is in the map; with ok the callback runs and may fail, which
\* ends the scan like a missing entry does.
MsReadEnd(c) ==
    /\ ~ms.crashed
    /\ ms.g[c].pc = "reading"
    /\ \E crash \in BOOLEAN, ok \in BOOLEAN, ferr \in BOOLEAN :
          /\ ~ms.g[c].dirty => (~crash /\ ok = (<<"seq", ms.g[c].i>> \in ms.fs))
          /\ crash => (~ok /\ ~ferr)
          /\ ok => ms.g[c].i < MaxSeq
          /\ ~ok => ~ferr
          /\ ms' = IF crash THEN [ms EXCEPT !.crashed = TRUE]
                   ELSE IF ok /\ ~ferr
                   THEN MsSet(c, [ms.g[c] EXCEPT !.pc = "scan", !.i = MemScanNext(@),
                                                  !.dirty = FALSE])
                   ELSE MsSet(c, [pc |-> "idle", op |-> "none", left |-> 0, i |-> 0,
                                  key |-> <<>>, dirty |-> FALSE])
    /\ MsOthers

NextMem ==
    \E c \in Procs :
        \/ \E op \in {"Sequence", "StoreTile", "WriteCheckpoint"}, e \in Entries : MsCall(c, op, e)
        \/ MsLock(c)
        \/ MsWriteBegin(c)
        \/ MsWriteEnd(c)
        \/ MsUnlock(c)
        \/ \E b \in 0..MaxSeq : MsScanCall(c, b)
        \/ MsReadBegin(c)
        \/ MsReadEnd(c)

SpecMem == Init /\ [][NextMem]_vars

\* C37: ScanSequenced never looks a path up in ms.fs while an assignment to
\* ms.fs by a concurrent Sequence, StoreTile or WriteCheckpoint is under way.
C37_ScanNeverOverlapsWrite ==
    \A c \in Procs : \A d \in Procs \ {c} :
        ~(ms.g[c].pc = "reading" /\ ms.g[d].pc = "writing")

\* The operations that take the lock never overlap each other.
MsLockedOpsExclusive ==
    /\ \A c \in Procs : ms.g[c].pc \in {"locked", "writing"} => ms.lock = c
    /\ ~ms.crashed => \A c \in Procs : ms.g[c].dirty => ms.g[c].op = "ScanSequenced"

\* ------------------------------------------------- the hammer's workerPool
\* Grow, Shrink and the goroutines of the workers (LeafReader,
\* RandomLeafReader, FullLogReader and the writers share Run's first lines
\* and Kill). The context handed to Grow stays open while the hammer runs.
PoolOthers ==
    UNCHANGED <<store, client, cpHist, seqHist, lastRet, scanFree, tcall, latest, scan, track,
                ms, lr, thr>>

\* What Kill finds in r.cancel. Run assigns r.cancel in its own goroutine and
\* Kill reads it in the caller's, with nothing ordering the two: once the
\* assignment was made the read yields the function or still nil.
KillSeesCancel(k) == IF pool.w[k].cancel THEN BOOLEAN ELSE {FALSE}

\* workerPool.Grow: w := p.factory(); append; go w.Run(ctx).
Grow ==
    /\ pool.made < MaxWorkers
    /\ LET k == pool.made + 1 IN
       pool' = [pool EXCEPT !.made = k,
                            !.workers = Append(@, k),
                            !.last = "Grow",
                            !.w[k].at = "go"]
    /\ PoolOthers

\* workerPool.Shrink: nothing on an empty pool; otherwise the last worker is
\* taken off and w.Kill() runs: if r.cancel != nil { r.cancel() }.
Shrink ==
    /\ IF Len(pool.workers) = 0
       THEN pool' = [pool EXCEPT !.last = "ShrinkEmpty"]
       ELSE LET k == pool.workers[Len(pool.workers)] IN
            \E seen \in KillSeesCancel(k) :
                pool' = [pool EXCEPT !.workers = SubSeq(@, 1, Len(@) - 1),
                                     !.last = "Shrink",
                                     !.w[k].killed = TRUE,
                                     !.w[k].done = @ \/ seen]
    /\ PoolOthers

\* Run, its first lines in the new goroutine: r.cancel is nil, then
\* ctx, r.cancel = context.WithCancel(ctx).
RunStart(k) ==
    /\ pool.w[k].at = "go"
    /\ pool' = [pool EXCEPT !.w[k].at = "loop", !.w[k].cancel = TRUE]
    /\ PoolOthers

\* Run, the select of its loop takes <-r.throttle: one operation, and back
\* to the select (noted once between two calls on the pool).
RunOnce(k) ==
    /\ pool.w[k].at = "loop"
    /\ pool.last # "Run"
    /\ pool' = [pool EXCEPT !.last = "Run"]
    /\ PoolOthers

\* Run, the select of its loop takes <-ctx.Done(): return.
RunReturn(k) ==
    /\ pool.w[k].at = "loop"
    /\ pool.w[k].done
    /\ pool' = [pool EXCEPT !.w[k].at = "returned"]
    /\ PoolOthers

NextPool ==
    \/ Grow
    \/ Shrink
    \/ \E k \in 1..MaxWorkers :
          \/ RunStart(k)
          \/ RunOnce(k)
          \/ RunReturn(k)

\* Every goroutine started keeps running: it reaches its loop, and a select
\* whose ctx.Done() case stays ready takes it eventually.
PoolFairness ==
    \A k \in 1..MaxWorkers : WF_vars(RunStart(k)) /\ WF_vars(RunReturn(k))

SpecPool == Init /\ [][NextPool]_vars /\ PoolFairness

\* The workers whose Run was started and has not returned.
Running == {k \in 1..MaxWorkers : pool.w[k].at \in {"go", "loop"}}

InPool == {pool.workers[n] : n \in 1..Len(pool.workers)}

\* C38: Grow adds one started worker, Shrink on an empty pool changes
\* nothing, Shrink takes the worker added last and calls its Kill, and the
\* Run of a worker taken out of the pool eventually returns, so that in the
\* end the pool holds exactly the running workers.
C38_PoolHoldsRunningWorkers ==
    /\ [][/\ Grow => /\ Len(pool'.workers) = Len(pool.workers) + 1
                     /\ pool'.w[pool'.workers[Len(pool'.workers)]].at = "go"
                     /\ SubSeq(pool'.workers, 1, Len(pool.workers)) = pool.workers
          /\ (Shrink /\ Len(pool.workers) = 0) => pool'.workers = pool.workers
          /\ (Shrink /\ Len(pool.workers) > 0) =>
                /\ pool'.workers = SubSeq(pool.workers, 1, Len(pool.workers) - 1)
                /\ pool'.w[pool.workers[Len(pool.workers)]].killed]_vars
    /\ [](InPool \subseteq Running)
    /\ \A k \in 1..MaxWorkers : pool.w[k].killed ~> pool.w[k].at = "returned"

\* The part of C38 that does not depend on when Kill runs.
PoolSafety ==
    /\ InPool \subseteq Running
    /\ \A k \in 1..MaxWorkers : pool.w[k].done => pool.w[k].killed /\ pool.w[k].cancel
    /\ \A k \in 1..MaxWorkers : pool.w[k].at = "returned" => pool.w[k].done

\* ------------------------------------------------- LeafReader.getLeaf
\* The log the hammer reads keeps its entries in leaf bundles of BundleSize
\* lines, one base64 text per line; the file of a partial bundle of n lines
\* has the suffix .n. Whether a bundle ends with a newline is the log's
\* choice, made with its first entry.
LrOthers ==
    UNCHANGED <<store, client, cpHist, seqHist, lastRet, scanFree, tcall, latest, scan, track,
                ms, pool, thr>>

\* The entry of index k, and base64 both ways.
LeafAt(k) == [enc |-> "raw", e |-> k + 1]

B64Encode(x) == IF x = EmptyBytes THEN x ELSE [x EXCEPT !.enc = "b64"]

B64Decode(x) == IF x.enc = "b64" THEN [x EXCEPT !.enc = "raw"] ELSE x

\* bytes.Split(bRaw, "\n") of the bundle file bi with n lines: the n texts,
\* and one empty string more when the file ends with a newline.
BundleLines(bi, n, trail) ==
    [k \in 1..n |-> B64Encode(LeafAt(bi * BundleSize + k - 1))]
        \o (IF trail THEN <<EmptyBytes>> ELSE <<>>)

\* tileCache.get(i).
TileCacheGet(tc, i) ==
    LET tcEnd == tc.start + Len(tc.leaves) IN
    IF i >= tc.start /\ i < tcEnd THEN tc.leaves[i - tc.start + 1] ELSE NilBytes

\* The log takes one more entry and the tracker follows.
LrGrow(trail) ==
    /\ lr.logSize < MaxLog
    /\ lr.logSize > 0 => trail = lr.trail
    /\ lr' = [lr EXCEPT !.logSize = @ + 1, !.trail = trail]
    /\ LrOthers

\* LeafReader.getLeaf(ctx, i, logSize); fault: the fetcher returns an error.
\* The bundle fetched is the one named by the path built: full, or partial
\* with br lines.
GetLeaf(i, fault) ==
    LET logSize == lr.logSize
        cached == TileCacheGet(lr.c, i)
        bi == i \div BundleSize
        br == IF bi = logSize \div BundleSize THEN logSize % BundleSize ELSE 0
        bs == BundleLines(bi, IF br > 0 THEN br ELSE BundleSize, lr.trail)
        Ret(how, val, f) == [how |-> how, i |-> i, size |-> logSize, val |-> val, fetched |-> f]
    IN
    /\ lr.logSize > 0
    /\ IF i >= logSize
       THEN lr' = [lr EXCEPT !.ret = Ret("ErrRange", NilBytes, FALSE)]
       ELSE IF cached # NilBytes
       THEN lr' = [lr EXCEPT !.ret = Ret("cache", cached, FALSE)]
       ELSE IF fault
       THEN lr' = [lr EXCEPT !.ret = Ret("ErrFetch", NilBytes, TRUE)]
       ELSE IF Len(bs) <= br
       THEN lr' = [lr EXCEPT !.ret = Ret("ErrShort", NilBytes, TRUE)]
       ELSE lr' = [lr EXCEPT !.c = [start |-> bi * BundleSize, leaves |-> bs],
                             !.ret = Ret("fetch", B64Decode(bs[br + 1]), TRUE)]
    /\ LrOthers

NextLeaf ==
    \/ \E trail \in BOOLEAN : LrGrow(trail)
    \/ \E i \in 0..MaxLog, fault \in BOOLEAN : GetLeaf(i, fault)

SpecLeaf == Init /\ [][NextLeaf]_vars

\* C39: getLeaf(i, logSize) with i < logSize, when the fetcher does not
\* fail, returns the decoded entry at offset i mod bundleSize of bundle
\* i div bundleSize, that is the entry of index i, from the cache as well as
\* from a fetch; with i >= logSize it returns an error and fetches nothing.
C39_GetLeafReturnsEntry ==
    LET r == lr.ret IN
    /\ (r.how # "none" /\ r.i >= r.size) => (r.how = "ErrRange" /\ ~r.fetched)
    /\ (r.how \notin {"none", "ErrFetch"} /\ r.i < r.size) =>
           /\ r.how \in {"cache", "fetch"}
           /\ r.val = B64Decode(BundleLines(r.i \div BundleSize, BundleSize, FALSE)
                                    [(r.i % BundleSize) + 1])
           /\ r.val = LeafAt(r.i)

\* The part of C39 about indices beyond the log.
GetLeafRangeChecked ==
    LET r == lr.ret IN
    /\ (r.how # "none" /\ r.i >= r.size) => (r.how = "ErrRange" /\ ~r.fetched)
    /\ r.how = "ErrRange" => r.i >= r.size

\* The calls that do return the entry asked for.
GetLeafRightSometimes ==
    LET r == lr.ret IN
    ~(r.how = "fetch" /\ r.val = LeafAt(r.i))

\* ------------------------------------------------------ the hammer's Throttle
\* Run in its goroutine, Increase and Decrease called from the UI's input
\* handler. The token channel and its readers are summed up in whether a
\* send goes through before the round's timeout.
ThrOthers ==
    UNCHANGED <<store, client, cpHist, seqHist, lastRet, scanFree, tcall, latest, scan, track,
                ms, pool, lr>>

\* delta of Increase and Decrease: float64(tokenCount) * 0.1, at least 1,
\* cut to an int.
ThrDelta(tokenCount) == IF tokenCount < 10 THEN 1 ELSE tokenCount \div 10

\* Throttle.Increase.
ThrIncrease ==
    /\ thr.opsPerSecond + ThrDelta(thr.opsPerSecond) <= MaxOps
    /\ thr' = [thr EXCEPT !.opsPerSecond = @ + ThrDelta(@)]
    /\ ThrOthers

\* Throttle.Decrease.
ThrDecrease ==
    /\ thr' = IF thr.opsPerSecond <= 1 THEN thr
              ELSE [thr EXCEPT !.opsPerSecond = @ - ThrDelta(@)]
    /\ ThrOthers

\* Throttle.Run, case <-ticker.C: tokenCount := t.opsPerSecond, i := 0.
ThrTick ==
    /\ ~thr.round
    /\ thr' = [thr EXCEPT !.round = TRUE, !.tokenCount = thr.opsPerSecond, !.i = 0]
    /\ ThrOthers

\* Throttle.Run, i < t.opsPerSecond and the send goes through: tokenCount--,
\* i++.
ThrSend ==
    /\ thr.round
    /\ thr.i < thr.opsPerSecond
    /\ thr' = [thr EXCEPT !.tokenCount = @ - 1, !.i = @ + 1]
    /\ ThrOthers

\* Throttle.Run, the loop ends (i reached t.opsPerSecond, or the timeout
\* fired): t.oversupply = tokenCount.
ThrRoundEnd ==
    /\ thr.round
    /\ thr' = [thr EXCEPT !.round = FALSE, !.oversupply = thr.tokenCount,
                          !.tokenCount = 0, !.i = 0]
    /\ ThrOthers

NextThr ==
    \/ ThrIncrease
    \/ ThrDecrease
    \/ ThrTick
    \/ ThrSend
    \/ ThrRoundEnd

SpecThr == Init /\ [][NextThr]_vars

\* C40: a round hands out at most opsPerSecond tokens and records what is
\* left, so the oversupply is never negative and never above opsPerSecond,
\* whatever Increase and Decrease do meanwhile; Decrease leaves opsPerSecond
\* at 1 or more and Increase adds 1 or more.
C40_OversupplyWithinBounds ==
    /\ [](0 <= thr.oversupply /\ thr.oversupply <= thr.opsPerSecond)
    /\ [](thr.round => thr.i <= thr.opsPerSecond)
    /\ [][/\ ThrRoundEnd => thr'.oversupply = thr.opsPerSecond - thr.i
          /\ ThrIncrease => thr'.opsPerSecond >= thr.opsPerSecond + 1
          /\ ThrDecrease => thr'.opsPerSecond >= 1]_vars

\* The part of C40 about Increase and Decrease, and what a round records.
ThrottleStepsRight ==
    /\ [](thr.opsPerSecond >= 1)
    /\ [](thr.round => thr.tokenCount + thr.i \in 1..MaxOps)
    /\ [][/\ ThrIncrease => thr'.opsPerSecond >= thr.opsPerSecond + 1
          /\ ThrDecrease => /\ thr'.opsPerSecond >= 1
                            /\ thr'.opsPerSecond <= thr.opsPerSecond
                            /\ thr.opsPerSecond > 1 => thr'.opsPerSecond < thr.opsPerSecond
          /\ ThrRoundEnd => thr'.oversupply = thr.tokenCount]_vars

\* A round that handed out more tokens than it started with.
OversupplyNeverNegative == thr.oversupply >= 0

====
